---- MODULE Spec2Model ----
(***************************************************************************)
(* Contract lifecycle chaincode (package service) over a key-value ledger. *)
(*                                                                         *)
(* The ledger is the world state of the chaincode stub: a map from keys to *)
(* the JSON of a Contract.  Every chaincode function is a function of the  *)
(* world state, the request envelope `data` and the environment of the     *)
(* invocation (the reading of the wall clock, the transaction id, and a    *)
(* fault the stub or the shim may report); it is modelled as an operator   *)
(* returning the world state after the invocation, the error and the       *)
(* response.  One action per chaincode function applies the operator to    *)
(* the current ledger.                                                     *)
(*                                                                         *)
(* The ledger keeps, with each key, the version of its last committed      *)
(* write.  Under concurrent invocations an invocation is first simulated   *)
(* on the world state, which gives the versions it has read and the writes *)
(* it asks for, and is committed later, in the order the ledger chooses,   *)
(* if the versions it has read are still current; inflight holds the       *)
(* simulated invocations that wait for their commit.                       *)
(*                                                                         *)
(* history records what the successful invocations have done: the ids of   *)
(* the contracts that a CreateAsset has created, and for each key the      *)
(* value of the last PutState of a successful invocation.                  *)
(***************************************************************************)
EXTENDS Integers, Sequences, FiniteSets, TLC

VARIABLES ledger, resp, version, inflight, history

vars == <<ledger, resp, version, inflight, history>>

(***************************************************************************)
(* Bounds of the model.                                                    *)
(***************************************************************************)
\* readings of time.Now(), in seconds
MaxTime == 2

Times == 1..MaxTime

\* contract ids used by documents and requests (one and two decimal digits)
ContractIds == {7, 12}

PackageIds == {41}

PackageHashes == {"pkg-hash"}

TxIds == {"tx-1"}

\* what the stub reports during an invocation, and what the stub or the shim
\* reports during a VoidAsset, the one function that calls shim.GetMSPID
StubFaults == {"none", "get", "put"}

Faults == StubFaults \cup {"msp"}

\* the environment of an invocation; an invocation that meets a fault writes
\* nothing, so one reading of the clock stands for all of them
EnvsWith(faults) ==
    { e \in [now : Times, txid : TxIds, fault : faults] :
        e.fault = "none" \/ e.now = 1 }

Envs == EnvsWith(Faults)

StubEnvs == EnvsWith(StubFaults)

(***************************************************************************)
(* dto.go: states of a contract.                                           *)
(***************************************************************************)
ContractStateActive == "active"

ContractStateVoided == "voided"

ContractStateExpired == "expired"

ContractStateReleased == "released"

\* the nil error
NoErr == "nil"

\* a nil pointer is <<>>, a pointer to v is <<v>>
Nil == <<>>

(***************************************************************************)
(* fmt.Sprint of an int64: its decimal representation.                     *)
(***************************************************************************)
Digit(d) ==
    CASE d = 0 -> "0" [] d = 1 -> "1" [] d = 2 -> "2" [] d = 3 -> "3"
      [] d = 4 -> "4" [] d = 5 -> "5" [] d = 6 -> "6" [] d = 7 -> "7"
      [] d = 8 -> "8" [] d = 9 -> "9"

RECURSIVE Decimal(_)
Decimal(n) == IF n < 10 THEN Digit(n) ELSE Decimal(n \div 10) \o Digit(n % 10)

Sprint(n) == IF n < 0 THEN "-" \o Decimal(0 - n) ELSE Decimal(n)

Bool(b) == IF b THEN "true" ELSE "false"

\* time.Now().Format(time.RFC3339) of the reading t (seconds, t < 60)
RFC3339(t) ==
    "2024-01-01T00:00:" \o (IF t < 10 THEN "0" ELSE "") \o Sprint(t) \o "Z"

(***************************************************************************)
(* The immutable contract (package contract).  The fields the lifecycle    *)
(* functions and the validators read are modelled; the others, and the     *)
(* participants and signatures of the documents sent to the chaincode, are *)
(* held fixed and left out of the serialisation; no document sent to the   *)
(* chaincode has proxy or release instructions.  Dates are seconds.        *)
(***************************************************************************)
Block(id) ==
    [ ContractID          |-> id,
      SchemaVersion       |-> 1,
      ContractFamilyId    |-> 5,
      ContractTypeId      |-> 3,
      ContractTypeVersion |-> 1,
      ContractOptions     |-> [ ExpiryDate              |-> Nil,
                                DaysToSign              |-> 0,
                                MaxDaysToSign           |-> 0,
                                AllowSignatureExtension |-> FALSE ],
      Participants        |-> <<>>,
      SignatureMethod     |-> [ PackageMethodId   |-> 1,
                                SignatureType     |-> "advanced",
                                SignatureProvider |-> "Subskribo" ],
      StorageYears        |-> 10,
      ProxyInstructions   |-> Nil,
      ReleaseInstructions |-> Nil,
      Definition          |-> [ ContractFamilyId |-> 5,
                                ContractType     |-> 3,
                                SchemaVersion    |-> 1 ],
      SealedOnDate        |-> 1 ]

\* the documents of the model: a valid block, blocks that fail one gate or two,
\* and a block whose signature method names a provider that is not supported
Variants == {"valid", "schema", "family", "schema+storage", "method"}

BlockOf(id, v) ==
    CASE v = "valid"  -> Block(id)
      [] v = "schema" -> [Block(id) EXCEPT !.SchemaVersion = 2]
      [] v = "family" -> [Block(id) EXCEPT !.ContractFamilyId = 6]
      [] v = "schema+storage" ->
            [Block(id) EXCEPT !.SchemaVersion = 2, !.StorageYears = 31]
      [] v = "method" ->
            [Block(id) EXCEPT !.SignatureMethod.SignatureProvider = "ItsMe"]

\* the signature block of a contract that nobody has signed
Unsigned == [ContractHash |-> "", Signatures |-> <<>>]

\* the container of a block that has not been through the consent phase
Container(cb) == [Contract |-> cb, ContractSignatures |-> Unsigned]

\* the gate variants for the first contract id; for the others, the block with
\* the unsupported signature method
FirstId == CHOOSE id \in ContractIds : \A other \in ContractIds : id <= other

Documents ==
    { Container(BlockOf(FirstId, v)) : v \in Variants \ {"method"} }
      \cup { Container(BlockOf(id, "method")) : id \in ContractIds \ {FirstId} }

(***************************************************************************)
(* encoding/json Marshal of the immutable contract: the fields in the      *)
(* order of their declaration, no insignificant whitespace; a nil pointer  *)
(* is null.                                                                *)
(***************************************************************************)
MarshalSignatureMethod(sm) ==
    "{\"package_method_id\":" \o Sprint(sm.PackageMethodId)
      \o ",\"signature_type\":\"" \o sm.SignatureType
      \o "\",\"signature_provider\":\"" \o sm.SignatureProvider
      \o "\"}"

MarshalOptions(o) ==
    "{\"expiry_date\":"
      \o (IF o.ExpiryDate = Nil THEN "null" ELSE Sprint(o.ExpiryDate[1]))
      \o ",\"days_to_sign\":" \o Sprint(o.DaysToSign)
      \o ",\"max_days_to_sign\":" \o Sprint(o.MaxDaysToSign)
      \o ",\"allow_signature_extension\":" \o Bool(o.AllowSignatureExtension)
      \o "}"

MarshalDefinition(d) ==
    "{\"contract_family_id\":" \o Sprint(d.ContractFamilyId)
      \o ",\"contract_type\":" \o Sprint(d.ContractType)
      \o ",\"schema_version\":" \o Sprint(d.SchemaVersion)
      \o "}"

MarshalBlock(cb) ==
    "{\"contract_id\":" \o Sprint(cb.ContractID)
      \o ",\"schema_version\":" \o Sprint(cb.SchemaVersion)
      \o ",\"contract_family_id\":" \o Sprint(cb.ContractFamilyId)
      \o ",\"contract_type_id\":" \o Sprint(cb.ContractTypeId)
      \o ",\"contract_type_version\":" \o Sprint(cb.ContractTypeVersion)
      \o ",\"contract_options\":" \o MarshalOptions(cb.ContractOptions)
      \o ",\"signature_method\":" \o MarshalSignatureMethod(cb.SignatureMethod)
      \o ",\"storage_years\":" \o Sprint(cb.StorageYears)
      \o ",\"proxy_instructions\":null"
      \o ",\"release_instructions\":null"
      \o ",\"definition\":" \o MarshalDefinition(cb.Definition)
      \o ",\"sealed_on_date\":" \o Sprint(cb.SealedOnDate)
      \o "}"

MarshalImmutableContract(ic) ==
    "{\"contract\":" \o MarshalBlock(ic.Contract) \o "}"

(***************************************************************************)
(* part_000: JsonHashS256.  The value is never nil for a struct argument;  *)
(* Marshal emits no whitespace, so Compact leaves its bytes as they are.   *)
(* SHA-256 with base64 is taken as collision free: the digest of a text is *)
(* the text under a tag.                                                   *)
(***************************************************************************)
Sha256Base64(bytes) == "sha256:" \o bytes

\* the digests of the documents of the model, computed once
Digests == [ic \in Documents |-> Sha256Base64(MarshalImmutableContract(ic))]

JsonHashS256(ic) == [hash |-> Digests[ic], err |-> NoErr]

(***************************************************************************)
(* Requests (dto.go) and their envelopes.  An envelope is the raw-base64   *)
(* text of the JSON of a request: enc says how far it decodes, req is the  *)
(* request it decodes to when it does.                                     *)
(***************************************************************************)
\* a hash that is the digest of no document of the model
WrongHash == "sha256:{}"

ClaimedHashes(ic) == {JsonHashS256(ic).hash, WrongHash}

NewAssetReqs ==
    { [ImmutableContract |-> ic, ImmutableContractHash |-> h] :
        ic \in Documents, h \in {JsonHashS256(d).hash : d \in Documents} \cup {WrongHash} }

VoidAssetReqs ==
    { [ImmutableContract |-> ic, ImmutableContractHash |-> h,
       ContractId |-> id, PackageId |-> p, PackageHash |-> ph] :
        ic \in Documents, h \in {JsonHashS256(d).hash : d \in Documents} \cup {WrongHash},
        id \in ContractIds, p \in PackageIds, ph \in PackageHashes }

Encodings == {"empty", "notbase64", "notjson", "ok"}

Envelopes(reqs) ==
    { [enc |-> "ok", req |-> r] : r \in { q \in reqs :
          q.ImmutableContractHash \in ClaimedHashes(q.ImmutableContract) } }
      \cup { [enc |-> e, req |-> CHOOSE r \in reqs : TRUE] :
               e \in Encodings \ {"ok"} }

(***************************************************************************)
(* part_000: ParseRequest.                                                 *)
(***************************************************************************)
ParseRequest(data) ==
    IF data.enc = "empty" THEN [err |-> "data is empty", obj |-> Nil]
    ELSE IF data.enc = "notbase64" THEN [err |-> "illegal base64 data", obj |-> Nil]
    ELSE IF data.enc = "notjson" THEN [err |-> "invalid json", obj |-> Nil]
    ELSE [err |-> NoErr, obj |-> <<data.req>>]

(***************************************************************************)
(* methods.go: ContractBlock.Validate.                                     *)
(***************************************************************************)

\* Validate that checks DaysToSign whether or not an expiry date is set
ValidateDaysAlways(cb) ==
    LET d   == cb.Definition
        opt == cb.ContractOptions
    IN  IF cb.ContractFamilyId # d.ContractFamilyId THEN "invalid contract family id"
        ELSE IF cb.ContractTypeId # d.ContractType THEN "invalid contract type id"
        ELSE IF cb.ContractTypeVersion = 0 THEN "invalid contract type version"
        ELSE IF cb.StorageYears < 1 \/ cb.StorageYears > 30 THEN "invalid storage years"
        ELSE IF opt.ExpiryDate # Nil /\ opt.ExpiryDate[1] < cb.SealedOnDate
             THEN "invalid expiry date"
        ELSE IF opt.DaysToSign < 1 THEN "invalid days to sign"
        ELSE IF opt.ExpiryDate # Nil /\ opt.AllowSignatureExtension
                  /\ opt.MaxDaysToSign < 1
             THEN "invalid days to sign extension"
        ELSE NoErr

Validate(cb) ==
    LET d   == cb.Definition
        opt == cb.ContractOptions
    IN  IF cb.ContractFamilyId # d.ContractFamilyId THEN "invalid contract family id"
        ELSE IF cb.ContractTypeId # d.ContractType THEN "invalid contract type id"
        ELSE IF cb.ContractTypeVersion = 0 THEN "invalid contract type version"
        ELSE IF cb.StorageYears < 1 \/ cb.StorageYears > 30 THEN "invalid storage years"
        ELSE IF opt.ExpiryDate # Nil /\ opt.ExpiryDate[1] < cb.SealedOnDate
             THEN "invalid expiry date"
        ELSE IF opt.ExpiryDate # Nil /\ opt.DaysToSign < 1 THEN "invalid days to sign"
        ELSE IF opt.ExpiryDate # Nil /\ opt.AllowSignatureExtension
                  /\ opt.MaxDaysToSign < 1
             THEN "invalid days to sign extension"
        ELSE NoErr

(***************************************************************************)
(* methods.go: SignatureMethod.Validate, ContractProxyInstructions.Validate.*)
(***************************************************************************)
SignatureMethodValidate(sm) ==
    IF sm.SignatureType = "" THEN "invalid signature type"
    ELSE IF sm.SignatureType # "advanced" /\ sm.SignatureType # "qualified"
    THEN "invalid signature type"
    ELSE IF sm.PackageMethodId # 1 /\ sm.PackageMethodId # 2 /\ sm.PackageMethodId # 3
    THEN "invalid package method id"
    ELSE IF sm.SignatureProvider # "Subskribo" /\ sm.SignatureProvider # "Connective"
    THEN "invalid signature provider"
    ELSE NoErr

ContractProxyInstructionsValidate(pi) ==
    IF pi.VisibleToAll /\ pi.Instructions = "" THEN "invalid instructions"
    ELSE IF pi.InstructionsHash = "" THEN "invalid instructions hash"
    ELSE NoErr

(***************************************************************************)
(* part_001: the role names and ContractParticipant.IsRole.  The receiver  *)
(* is a participant of a block, never nil.  The loop over Roles returns in *)
(* its first iteration.                                                    *)
(***************************************************************************)

(***************************************************************************)
(* methods.go: KeyInfo.Validate, ContractSignaturePackage.Validate.        *)
(***************************************************************************)
KeyInfoValidate(k) ==
    IF k.X509Certificate = ""
    THEN IF k.KeyId = "" THEN "invalid key id"
         ELSE IF k.KeyType = "" THEN "invalid key type"
         ELSE IF k.KeySource = "" THEN "invalid key source"
         ELSE NoErr
    ELSE NoErr

\* ContractSignaturePackage.Validate without the exemption of the embedded method
ContractSignaturePackageValidateAllMethods(sp, signatureMethodId) ==
    IF sp.ContractId < 1 THEN "invalid contract id"
    ELSE IF sp.ContractHash = "" THEN "invalid contract hash"
    ELSE IF sp.UserId = "" THEN "invalid user id"
    ELSE IF sp.UserFullName = "" THEN "invalid user full name"
    ELSE IF sp.DateSigned = 0 THEN "invalid date signed"
    ELSE IF sp.SignatureType = "" THEN "invalid signature type"
    ELSE IF sp.SignatureId = "" THEN "invalid signature id"
    ELSE IF sp.IpAddress = "" THEN "invalid ip address"
    ELSE IF sp.SignatureProvider = "" THEN "invalid signature provider"
    ELSE KeyInfoValidate(sp.KeyInfo)

ContractSignaturePackageValidate(sp, signatureMethodId) ==
    IF sp.ContractId < 1 THEN "invalid contract id"
    ELSE IF sp.ContractHash = "" THEN "invalid contract hash"
    ELSE IF sp.UserId = "" THEN "invalid user id"
    ELSE IF sp.UserFullName = "" THEN "invalid user full name"
    ELSE IF sp.DateSigned = 0 THEN "invalid date signed"
    ELSE IF sp.SignatureType = "" THEN "invalid signature type"
    ELSE IF signatureMethodId # 3
    THEN IF sp.SignatureId = "" THEN "invalid signature id"
         ELSE IF sp.IpAddress = "" THEN "invalid ip address"
         ELSE IF sp.SignatureProvider = "" THEN "invalid signature provider"
         ELSE IF KeyInfoValidate(sp.KeyInfo) # NoErr THEN KeyInfoValidate(sp.KeyInfo)
         ELSE IF sp.ContractHash = "" THEN "invalid contract hash"
         ELSE NoErr
    ELSE NoErr


(***************************************************************************)
(* methods.go: ReleaseInstructionDetail.Validate.  The packages of the     *)
(* notary and of the acceptance are pointers; of the notary's package the  *)
(* function reads the ApprovalState.                                       *)
(***************************************************************************)
InstructionMinLength == 60

\* ReleaseInstructionDetail.Validate that accepts the template id 0
ReleaseInstructionDetailValidateFromZero(rid, evidenceRequired) ==
    IF Len(rid.Instructions) < InstructionMinLength THEN "invalid instructions"
    ELSE IF ~rid.IsCustomRelease
    THEN IF rid.StandardReleaseTemplateId < 0
         THEN "invalid standard release template id"
         ELSE NoErr
    ELSE IF rid.NotaryPackage # Nil
    THEN IF rid.NotarySignature = "" THEN "invalid notary signature"
         ELSE IF rid.NotaryPackage[1].ApprovalState # "none"
         THEN IF rid.AcceptancePackage = Nil THEN "invalid acceptance package"
              ELSE IF rid.AcceptanceSignature = "" THEN "invalid acceptance signature"
              ELSE NoErr
         ELSE NoErr
    ELSE IF rid.ConsensusMethod = "" THEN "invalid consensus method"
    ELSE IF evidenceRequired /\ ~rid.IsEvidenceRequiredForRelease
    THEN "invalid evidence required for release flag"
    ELSE NoErr

\* ReleaseInstructionDetail.Validate that asks for a consensus method on the
\* path of the notary too
ReleaseInstructionDetailValidateConsensusAlways(rid, evidenceRequired) ==
    IF Len(rid.Instructions) < InstructionMinLength THEN "invalid instructions"
    ELSE IF ~rid.IsCustomRelease
    THEN IF rid.StandardReleaseTemplateId < 1
         THEN "invalid standard release template id"
         ELSE NoErr
    ELSE IF rid.ConsensusMethod = "" THEN "invalid consensus method"
    ELSE IF rid.NotaryPackage # Nil
    THEN IF rid.NotarySignature = "" THEN "invalid notary signature"
         ELSE IF rid.NotaryPackage[1].ApprovalState # "none"
         THEN IF rid.AcceptancePackage = Nil THEN "invalid acceptance package"
              ELSE IF rid.AcceptanceSignature = "" THEN "invalid acceptance signature"
              ELSE NoErr
         ELSE NoErr
    ELSE IF evidenceRequired /\ ~rid.IsEvidenceRequiredForRelease
    THEN "invalid evidence required for release flag"
    ELSE NoErr

ReleaseInstructionDetailValidate(rid, evidenceRequired) ==
    IF Len(rid.Instructions) < InstructionMinLength THEN "invalid instructions"
    ELSE IF ~rid.IsCustomRelease
    THEN IF rid.StandardReleaseTemplateId < 1
         THEN "invalid standard release template id"
         ELSE NoErr
    ELSE IF rid.NotaryPackage # Nil
    THEN IF rid.NotarySignature = "" THEN "invalid notary signature"
         ELSE IF rid.NotaryPackage[1].ApprovalState # "none"
         THEN IF rid.AcceptancePackage = Nil THEN "invalid acceptance package"
              ELSE IF rid.AcceptanceSignature = "" THEN "invalid acceptance signature"
              ELSE NoErr
         ELSE NoErr
    ELSE IF rid.ConsensusMethod = "" THEN "invalid consensus method"
    ELSE IF evidenceRequired /\ ~rid.IsEvidenceRequiredForRelease
    THEN "invalid evidence required for release flag"
    ELSE NoErr

Creator == "creator"

Signatory == "signatory"

IsRole(c, role) ==
    IF role = "" THEN FALSE
    ELSE IF Len(c.Roles) = 0 THEN FALSE
    ELSE c.Roles[1] = role

(***************************************************************************)
(* methods.go: GetSignatoryCountFromParticipants and                       *)
(* ValidateSignaturesComplete.  The zero time is the date 0.               *)
(***************************************************************************)
SHA256_HASH_BASE64_LENGTH == 44

SIGNATURE_RSA2048_BASE64_LENGTH == 344

SignPackageMethodId_Constructed == 2

SignPackageMethodId_Embedded == 3

RECURSIVE SignatoryCount(_, _)
\* the count of the loop of GetSignatoryCountFromParticipants from participant i on
SignatoryCount(ps, i) ==
    IF i > Len(ps) THEN 0
    ELSE (IF IsRole(ps[i], Signatory) THEN 1 ELSE 0) + SignatoryCount(ps, i + 1)

GetSignatoryCountFromParticipants(cb) == SignatoryCount(cb.Participants, 1)

formatSignedPackageErr(userId, userName, msgPostfix) ==
    "contract signature package for user id '" \o userId \o "' and name '"
      \o userName \o "', has error: " \o msgPostfix

\* the checks of the package sp once its UserId has matched a signatory
SignedPackageError(c, sp) ==
    LET pkg        == sp.ContractSignaturePackage
        isEmbedded == c.Contract.SignatureMethod.PackageMethodId
                        = SignPackageMethodId_Embedded
        Err(msg)   == formatSignedPackageErr(pkg.UserId, pkg.UserFullName, msg)
    IN  IF pkg.UserFullName = "" THEN Err("full name not set")
        ELSE IF pkg.DateSigned = 0 THEN Err("signed on data not set")
        ELSE IF Len(pkg.ContractHash) # SHA256_HASH_BASE64_LENGTH
        THEN Err("package hash no set or incorrect length")
        ELSE IF c.ContractSignatures.ContractHash # pkg.ContractHash
        THEN Err("contract hash does not match contract hash in signature package")
        ELSE IF pkg.ContractId # c.Contract.ContractID
        THEN Err("contract id does not match contract id in signature package")
        ELSE IF isEmbedded THEN NoErr
        ELSE IF Len(sp.ContractSignaturePackageHash) # SHA256_HASH_BASE64_LENGTH
        THEN Err("package hash not of correct length")
        ELSE IF sp.Signature = "" THEN Err("missing signature")
        ELSE IF Len(sp.Signature) # SIGNATURE_RSA2048_BASE64_LENGTH
        THEN Err("signature is not of correct length ")
        ELSE NoErr

RECURSIVE SignaturesLoop(_, _, _, _)
\* the loop over the signature packages for the signatory p, from package j on;
\* found is the variable of that name, which the function sets and never clears
SignaturesLoop(c, p, j, found) ==
    IF j > Len(c.ContractSignatures.Signatures) THEN [err |-> NoErr, found |-> found]
    ELSE LET sp      == c.ContractSignatures.Signatures[j]
             matches == sp.ContractSignaturePackage.UserId = p.UserId
             perr    == IF matches THEN SignedPackageError(c, sp) ELSE NoErr
         IN  IF perr # NoErr THEN [err |-> perr, found |-> TRUE]
             ELSE IF ~(found \/ matches)
             THEN [err |-> "contract signatures block does not have a signature "
                             \o "package for signatory user id '" \o p.UserId \o "'",
                   found |-> FALSE]
             ELSE SignaturesLoop(c, p, j + 1, TRUE)

RECURSIVE ParticipantsLoop(_, _, _)
\* the loop over the participants, from participant i on
ParticipantsLoop(c, i, found) ==
    IF i > Len(c.Contract.Participants) THEN NoErr
    ELSE LET p == c.Contract.Participants[i]
         IN  IF ~IsRole(p, Signatory) THEN ParticipantsLoop(c, i + 1, found)
             ELSE LET r == SignaturesLoop(c, p, 1, found)
                  IN  IF r.err # NoErr THEN r.err
                      ELSE ParticipantsLoop(c, i + 1, r.found)

\* the receiver is the container of a request, never nil
ValidateSignaturesComplete(c) ==
    LET signedPackCount == Len(c.ContractSignatures.Signatures)
        signatoryCount  == GetSignatoryCountFromParticipants(c.Contract)
    IN  IF Len(c.ContractSignatures.ContractHash) # SHA256_HASH_BASE64_LENGTH
        THEN "contract signatures block does not have a contract hash set, "
               \o "or is not of correct length"
        ELSE IF signedPackCount = 0
        THEN "contract signatures block does not have any signature packages set"
        ELSE IF signedPackCount # signatoryCount
        THEN "contract signatures block does not have the same number of "
               \o "signature packages as there are signatories"
        ELSE ParticipantsLoop(c, 1, FALSE)

(***************************************************************************)
(* The stub of the transaction context: GetState, PutState, GetTxID; and   *)
(* shim.GetMSPID.  A fault of the invocation makes the call fail.  Each    *)
(* access to the ledger comes with the record of the call, and a function  *)
(* that accesses the ledger returns, as calls, the calls it has made, in   *)
(* their order.                                                            *)
(***************************************************************************)
GetState(L, key, env) ==
    IF env.fault = "get"
    THEN [ val |-> Nil, err |-> "ledger get failed",
           calls |-> <<[fn |-> "GetState", key |-> key, err |-> "ledger get failed"]>> ]
    ELSE [ val |-> IF key \in DOMAIN L THEN <<L[key]>> ELSE Nil, err |-> NoErr,
           calls |-> <<[fn |-> "GetState", key |-> key, err |-> NoErr]>> ]

PutState(L, key, value, env) ==
    IF env.fault = "put"
    THEN [ ledger |-> L, err |-> "ledger put failed",
           calls |-> <<[ fn |-> "PutState", key |-> key, value |-> value,
                         err |-> "ledger put failed" ]>> ]
    ELSE [ ledger |-> [k \in DOMAIN L \cup {key} |-> IF k = key THEN value ELSE L[k]],
           err |-> NoErr,
           calls |-> <<[fn |-> "PutState", key |-> key, value |-> value, err |-> NoErr]>> ]


\* the keys of the ledger are the decimal representations of contract ids;
\* the ledger iterates over them in the order of the strings
RECURSIVE Digits(_)
Digits(n) == IF n < 10 THEN <<n>> ELSE Append(Digits(n \div 10), n % 10)

StringBefore(a, b) ==
    \/ Len(a) < Len(b) /\ SubSeq(b, 1, Len(a)) = a
    \/ \E i \in 1..Len(a) :
          /\ i <= Len(b)
          /\ SubSeq(a, 1, i - 1) = SubSeq(b, 1, i - 1)
          /\ a[i] < b[i]

KeyIds(L) == { n \in ContractIds \cup {0} : Sprint(n) \in DOMAIN L }

RECURSIVE KeysInOrder(_)
KeysInOrder(ids) ==
    IF ids = {} THEN <<>>
    ELSE LET first == CHOOSE n \in ids :
                         \A m \in ids \ {n} : StringBefore(Digits(n), Digits(m))
         IN  <<Sprint(first)>> \o KeysInOrder(ids \ {first})

\* GetStateByRange("", ""): every key of the ledger with its value, in order;
\* the fault "next" is a failure of the iterator at its first Next
GetStateByRange(L, env) ==
    IF env.fault = "get"
    THEN [ kvs |-> <<>>, err |-> "ledger range failed",
           calls |-> <<[fn |-> "GetStateByRange", key |-> "", err |-> "ledger range failed"]>> ]
    ELSE [ kvs |-> LET keys == KeysInOrder(KeyIds(L))
                   IN  [i \in 1..Len(keys) |-> [Key |-> keys[i], Value |-> L[keys[i]]]],
           err |-> NoErr,
           calls |-> <<[fn |-> "GetStateByRange", key |-> "", err |-> NoErr]>> ]

GetTxID(env) == env.txid

GetMSPID(env) ==
    IF env.fault = "msp" THEN [id |-> "", err |-> "'CORE_PEER_LOCALMSPID' is not set"]
    ELSE [id |-> "Org1MSP", err |-> NoErr]

(***************************************************************************)
(* dto.go: Contract and Change, and their JSON (the json tags).            *)
(***************************************************************************)
MarshalChange(ch) ==
    [ package_id   |-> ch.PackageID,
      package_hash |-> ch.PackageHash,
      package_date |-> ch.PackageDate,
      caller_sdn   |-> ch.CallerSdn,
      action       |-> ch.Action,
      new_state    |-> ch.NewState ]

UnmarshalChange(j) ==
    [ PackageID   |-> j.package_id,
      PackageHash |-> j.package_hash,
      PackageDate |-> j.package_date,
      CallerSdn   |-> j.caller_sdn,
      Action      |-> j.action,
      NewState    |-> j.new_state ]

MarshalContract(c) ==
    [ contract_id  |-> c.ContractId,
      version      |-> c.Version,
      contractHash |-> c.ContractHash,
      created_at   |-> c.CreatedAt,
      updated_at   |-> c.UpdatedAt,
      state        |-> c.State,
      changes      |-> [i \in 1..Len(c.Changes) |-> MarshalChange(c.Changes[i])] ]

UnmarshalContract(j) ==
    [ ContractId   |-> j.contract_id,
      Version      |-> j.version,
      ContractHash |-> j.contractHash,
      CreatedAt    |-> j.created_at,
      UpdatedAt    |-> j.updated_at,
      State        |-> j.state,
      Changes      |-> [i \in 1..Len(j.changes) |-> UnmarshalChange(j.changes[i])] ]

(***************************************************************************)
(* read.go: ReadAsset, AssetExists.                                        *)
(***************************************************************************)

\* ReadAsset that returns the zero Contract for a key the ledger does not hold
ReadAssetZeroContract(L, id, env) ==
    LET g == GetState(L, id, env)
    IN  IF g.err # NoErr
        THEN [ asset |-> Nil, err |-> "failed to read from world state: " \o g.err,
               calls |-> g.calls ]
        ELSE IF g.val = Nil
        THEN [ asset |-> <<[ ContractId |-> 0, Version |-> 0, ContractHash |-> "",
                             CreatedAt |-> "", UpdatedAt |-> "", State |-> "",
                             Changes |-> <<>> ]>>,
               err |-> NoErr, calls |-> g.calls ]
        ELSE [asset |-> <<UnmarshalContract(g.val[1])>>, err |-> NoErr, calls |-> g.calls]

\* ReadAsset that takes the asset from the world state without a GetState call
ReadAssetUntracked(L, id, env) ==
    LET g == GetState(L, id, env)
    IN  IF g.err # NoErr
        THEN [ asset |-> Nil, err |-> "failed to read from world state: " \o g.err,
               calls |-> <<>> ]
        ELSE IF g.val = Nil
        THEN [ asset |-> Nil, err |-> "the asset " \o id \o " does not exist",
               calls |-> <<>> ]
        ELSE [asset |-> <<UnmarshalContract(g.val[1])>>, err |-> NoErr, calls |-> <<>>]

ReadAsset(L, id, env) ==
    LET g == GetState(L, id, env)
    IN  IF g.err # NoErr
        THEN [ asset |-> Nil, err |-> "failed to read from world state: " \o g.err,
               calls |-> g.calls ]
        ELSE IF g.val = Nil
        THEN [ asset |-> Nil, err |-> "the asset " \o id \o " does not exist",
               calls |-> g.calls ]
        ELSE [asset |-> <<UnmarshalContract(g.val[1])>>, err |-> NoErr, calls |-> g.calls]


\* AssetExists that writes the zero Contract under a key it does not find
AssetExistsMarks(L, id, env) ==
    LET g == GetState(L, id, env)
    IN  IF g.err # NoErr
        THEN [ exists |-> FALSE, err |-> "failed to read from world state: " \o g.err,
               calls |-> g.calls ]
        ELSE IF g.val # Nil
        THEN [exists |-> TRUE, err |-> NoErr, calls |-> g.calls]
        ELSE LET put == PutState(L, id,
                          MarshalContract([ ContractId |-> 0, Version |-> 0,
                                            ContractHash |-> "", CreatedAt |-> "",
                                            UpdatedAt |-> "", State |-> "",
                                            Changes |-> <<>> ]), env)
             IN  [exists |-> FALSE, err |-> NoErr, calls |-> g.calls \o put.calls]

\* AssetExists that finds no asset
AssetExistsNever(L, id, env) ==
    LET g == GetState(L, id, env)
    IN  IF g.err # NoErr
        THEN [ exists |-> FALSE, err |-> "failed to read from world state: " \o g.err,
               calls |-> g.calls ]
        ELSE [exists |-> FALSE, err |-> NoErr, calls |-> g.calls]

AssetExists(L, id, env) ==
    LET g == GetState(L, id, env)
    IN  IF g.err # NoErr
        THEN [ exists |-> FALSE, err |-> "failed to read from world state: " \o g.err,
               calls |-> g.calls ]
        ELSE [exists |-> g.val # Nil, err |-> NoErr, calls |-> g.calls]


GetAllAssets(L, env) ==
    LET it == GetStateByRange(L, env)
    IN  IF it.err # NoErr
        THEN [assets |-> <<>>, err |-> it.err, calls |-> it.calls]
        ELSE IF Len(it.kvs) > 0 /\ env.fault = "next"
        THEN [assets |-> <<>>, err |-> "ledger iterator failed", calls |-> it.calls]
        ELSE [ assets |-> [i \in 1..Len(it.kvs) |-> UnmarshalContract(it.kvs[i].Value)],
               err |-> NoErr, calls |-> it.calls ]

\* the result of an invocation that returns (nil, err) after the calls it has
\* made, none of which has written
Failed(L, e, calls) == [ledger |-> L, err |-> e, out |-> Nil, calls |-> calls]

(***************************************************************************)
(* dto.go: CreateAsset.                                                    *)
(***************************************************************************)
\* the checks on the document, before the ledger is read
CreateGates(cc) ==
    LET h == JsonHashS256(cc.ImmutableContract)
    IN  IF h.err # NoErr THEN h.err
        ELSE IF h.hash # cc.ImmutableContractHash THEN "invalid immutable contract hash"
        ELSE Validate(cc.ImmutableContract.Contract)


\* NewContract taking the version from the definition instead of the block
NewContractDefinitionVersion(cc, t) ==
    [ ContractId   |-> cc.ImmutableContract.Contract.ContractID,
      Version      |-> cc.ImmutableContract.Contract.Definition.SchemaVersion,
      ContractHash |-> cc.ImmutableContractHash,
      CreatedAt    |-> t,
      UpdatedAt    |-> t,
      State        |-> ContractStateActive,
      Changes      |-> <<>> ]

\* the Contract built for the document, t the formatted reading of the clock
NewContract(cc, t) ==
    [ ContractId   |-> cc.ImmutableContract.Contract.ContractID,
      Version      |-> cc.ImmutableContract.Contract.SchemaVersion,
      ContractHash |-> cc.ImmutableContractHash,
      CreatedAt    |-> t,
      UpdatedAt    |-> t,
      State        |-> ContractStateActive,
      Changes      |-> <<>> ]


\* CreateAsset without the check that the asset does not exist yet
CreateAssetOverwrites(L, data, env) ==
    LET p == ParseRequest(data)
    IN  IF p.err # NoErr THEN Failed(L, p.err, <<>>) ELSE
    LET cc   == p.obj[1]
        gerr == CreateGates(cc)
    IN  IF gerr # NoErr THEN Failed(L, gerr, <<>>) ELSE
    LET contract == NewContract(cc, RFC3339(env.now))
        contractIdStr == Sprint(contract.ContractId)
        put == PutState(L, contractIdStr, MarshalContract(contract), env)
    IN  IF put.err # NoErr THEN Failed(L, put.err, put.calls)
        ELSE [ ledger |-> put.ledger,
               err    |-> NoErr,
               out    |-> <<[ContractId |-> contract.ContractId, TxId |-> GetTxID(env)]>>,
               calls  |-> put.calls ]

CreateAsset(L, data, env) ==
    LET p == ParseRequest(data)
    IN  IF p.err # NoErr THEN Failed(L, p.err, <<>>) ELSE
    LET cc   == p.obj[1]
        gerr == CreateGates(cc)
    IN  IF gerr # NoErr THEN Failed(L, gerr, <<>>) ELSE
    LET contract == NewContract(cc, RFC3339(env.now))
        contractIdStr == Sprint(contract.ContractId)
        ex == AssetExists(L, contractIdStr, env)
    IN  IF ex.err # NoErr THEN Failed(L, ex.err, ex.calls)
        ELSE IF ex.exists
        THEN Failed(L, "the contract " \o Sprint(contract.ContractId) \o " already exists",
                    ex.calls)
        ELSE
    LET put == PutState(L, contractIdStr, MarshalContract(contract), env)
    IN  IF put.err # NoErr THEN Failed(L, put.err, ex.calls \o put.calls)
        ELSE [ ledger |-> put.ledger,
               err    |-> NoErr,
               out    |-> <<[ContractId |-> contract.ContractId, TxId |-> GetTxID(env)]>>,
               calls  |-> ex.calls \o put.calls ]

(***************************************************************************)
(* void.go: VoidAsset.                                                     *)
(***************************************************************************)
\* the checks on the document, before the ledger is read
VoidGates(cc) ==
    LET h == JsonHashS256(cc.ImmutableContract)
    IN  IF h.err # NoErr THEN h.err
        ELSE IF h.hash # cc.ImmutableContractHash THEN "invalid immutable contract hash"
        ELSE IF cc.ImmutableContract.Contract.SchemaVersion
                  # cc.ImmutableContract.Contract.Definition.SchemaVersion
        THEN "contract schema version does not match with definition"
        ELSE Validate(cc.ImmutableContract.Contract)


\* VoidStateError without the case of an expired contract
VoidStateErrorOmitsExpired(state) ==
    IF state = ContractStateVoided THEN "contract already voided"
    ELSE IF state = ContractStateReleased THEN "contract released, cannot void"
    ELSE NoErr

\* the switch on the state of the asset read
VoidStateError(state) ==
    IF state = ContractStateVoided THEN "contract already voided"
    ELSE IF state = ContractStateExpired THEN "contract expired, cannot void"
    ELSE IF state = ContractStateReleased THEN "contract released, cannot void"
    ELSE NoErr


\* VoidTransition recording the state before the assignment
VoidTransitionStaleState(asset, cc, t) ==
    [asset EXCEPT
       !.State = ContractStateVoided,
       !.UpdatedAt = t,
       !.Changes = Append(asset.Changes,
                     [ PackageID   |-> cc.PackageId,
                       PackageHash |-> cc.PackageHash,
                       PackageDate |-> t,
                       CallerSdn   |-> "",
                       Action      |-> "void",
                       NewState    |-> asset.State ])]

\* VoidTransition stamping the creation date with the date of the transition
VoidTransitionRestamps(asset, cc, t) ==
    [asset EXCEPT
       !.State = ContractStateVoided,
       !.CreatedAt = t,
       !.UpdatedAt = t,
       !.Changes = Append(asset.Changes,
                     [ PackageID   |-> cc.PackageId,
                       PackageHash |-> cc.PackageHash,
                       PackageDate |-> t,
                       CallerSdn   |-> "",
                       Action      |-> "void",
                       NewState    |-> ContractStateVoided ])]

\* the asset after the transition
VoidTransition(asset, cc, t) ==
    [asset EXCEPT
       !.State = ContractStateVoided,
       !.UpdatedAt = t,
       !.Changes = Append(asset.Changes,
                     [ PackageID   |-> cc.PackageId,
                       PackageHash |-> cc.PackageHash,
                       PackageDate |-> t,
                       CallerSdn   |-> "",
                       Action      |-> "void",
                       NewState    |-> ContractStateVoided ])]


\* VoidAsset trying the PutState a second time when the first has failed
VoidAssetRetriesPut(L, data, env) ==
    LET p == ParseRequest(data)
    IN  IF p.err # NoErr THEN Failed(L, p.err, <<>>) ELSE
    LET cc   == p.obj[1]
        gerr == VoidGates(cc)
    IN  IF gerr # NoErr THEN Failed(L, gerr, <<>>) ELSE
    LET msp == GetMSPID(env)
    IN  IF msp.err # NoErr
        THEN Failed(L, "failed getting peer's orgID: " \o msp.err, <<>>) ELSE
    LET rd == ReadAsset(L, Sprint(cc.ContractId), env)
    IN  IF rd.err # NoErr THEN Failed(L, rd.err, rd.calls) ELSE
    LET serr == VoidStateError(rd.asset[1].State)
    IN  IF serr # NoErr THEN Failed(L, serr, rd.calls) ELSE
    LET asset == VoidTransition(rd.asset[1], cc, RFC3339(env.now))
        put   == PutState(L, Sprint(asset.ContractId), MarshalContract(asset), env)
        again == PutState(L, Sprint(asset.ContractId), MarshalContract(asset), env)
    IN  IF put.err # NoErr /\ again.err # NoErr
        THEN Failed(L, again.err, rd.calls \o put.calls \o again.calls)
        ELSE IF put.err # NoErr
        THEN [ ledger |-> again.ledger, err |-> NoErr, out |-> <<[TxId |-> GetTxID(env)]>>,
               calls |-> rd.calls \o put.calls \o again.calls ]
        ELSE [ ledger |-> put.ledger, err |-> NoErr, out |-> <<[TxId |-> GetTxID(env)]>>,
               calls |-> rd.calls \o put.calls ]

VoidAsset(L, data, env) ==
    LET p == ParseRequest(data)
    IN  IF p.err # NoErr THEN Failed(L, p.err, <<>>) ELSE
    LET cc   == p.obj[1]
        gerr == VoidGates(cc)
    IN  IF gerr # NoErr THEN Failed(L, gerr, <<>>) ELSE
    LET msp == GetMSPID(env)
    IN  IF msp.err # NoErr
        THEN Failed(L, "failed getting peer's orgID: " \o msp.err, <<>>) ELSE
    LET rd == ReadAsset(L, Sprint(cc.ContractId), env)
    IN  IF rd.err # NoErr THEN Failed(L, rd.err, rd.calls) ELSE
    LET serr == VoidStateError(rd.asset[1].State)
    IN  IF serr # NoErr THEN Failed(L, serr, rd.calls) ELSE
    LET asset == VoidTransition(rd.asset[1], cc, RFC3339(env.now))
        put   == PutState(L, Sprint(asset.ContractId), MarshalContract(asset), env)
    IN  IF put.err # NoErr THEN Failed(L, put.err, rd.calls \o put.calls)
        ELSE [ ledger |-> put.ledger, err |-> NoErr, out |-> <<[TxId |-> GetTxID(env)]>>,
               calls |-> rd.calls \o put.calls ]

(***************************************************************************)
(* part_001: ExpireAsset.  The envelope is parsed as a VoidAssetReq.       *)
(***************************************************************************)
ExpireGates(cc) ==
    LET h == JsonHashS256(cc.ImmutableContract)
    IN  IF h.err # NoErr THEN h.err
        ELSE IF h.hash # cc.ImmutableContractHash THEN "invalid immutable contract hash"
        ELSE IF cc.ImmutableContract.Contract.SchemaVersion
                  # cc.ImmutableContract.Contract.Definition.SchemaVersion
        THEN "contract schema version does not match with definition"
        ELSE Validate(cc.ImmutableContract.Contract)


\* ExpireStateError with the messages of VoidAsset left as they were copied
ExpireStateErrorVoidMessages(state) ==
    IF state = ContractStateVoided THEN "contract already voided"
    ELSE IF state = ContractStateExpired THEN "contract expired, cannot void"
    ELSE IF state = ContractStateReleased THEN "contract released, cannot void"
    ELSE NoErr

\* ExpireStateError without the case of a voided contract
ExpireStateErrorOmitsVoided(state) ==
    IF state = ContractStateExpired THEN "contract already expired"
    ELSE IF state = ContractStateReleased THEN "contract released, cannot expire"
    ELSE NoErr

ExpireStateError(state) ==
    IF state = ContractStateVoided THEN "contract voided, cannot expire"
    ELSE IF state = ContractStateExpired THEN "contract already expired"
    ELSE IF state = ContractStateReleased THEN "contract released, cannot expire"
    ELSE NoErr


\* ExpireTransition with the Change of VoidAsset left as it was copied
ExpireTransitionVoidAction(asset, cc, t) ==
    [asset EXCEPT
       !.State = ContractStateExpired,
       !.UpdatedAt = t,
       !.Changes = Append(asset.Changes,
                     [ PackageID   |-> cc.PackageId,
                       PackageHash |-> cc.PackageHash,
                       PackageDate |-> t,
                       CallerSdn   |-> "",
                       Action      |-> "void",
                       NewState    |-> ContractStateExpired ])]


\* ExpireTransition that expires the contract only once the clock has passed
\* its first reading
ExpireTransitionWhenDue(asset, cc, t) ==
    IF t = RFC3339(1)
    THEN [asset EXCEPT !.UpdatedAt = t]
    ELSE [asset EXCEPT
            !.State = ContractStateExpired,
            !.UpdatedAt = t,
            !.Changes = Append(asset.Changes,
                          [ PackageID   |-> cc.PackageId,
                            PackageHash |-> cc.PackageHash,
                            PackageDate |-> t,
                            CallerSdn   |-> "",
                            Action      |-> "expire",
                            NewState    |-> ContractStateExpired ])]

\* ExpireTransition that records no Change for the transition
ExpireTransitionNoChange(asset, cc, t) ==
    [asset EXCEPT
       !.State = ContractStateExpired,
       !.UpdatedAt = t]

ExpireTransition(asset, cc, t) ==
    [asset EXCEPT
       !.State = ContractStateExpired,
       !.UpdatedAt = t,
       !.Changes = Append(asset.Changes,
                     [ PackageID   |-> cc.PackageId,
                       PackageHash |-> cc.PackageHash,
                       PackageDate |-> t,
                       CallerSdn   |-> "",
                       Action      |-> "expire",
                       NewState    |-> ContractStateExpired ])]


\* ExpireAsset writing the transition before it looks at the state of the asset
ExpireAssetWritesFirst(L, data, env) ==
    LET p == ParseRequest(data)
    IN  IF p.err # NoErr THEN Failed(L, p.err, <<>>) ELSE
    LET cc   == p.obj[1]
        gerr == ExpireGates(cc)
    IN  IF gerr # NoErr THEN Failed(L, gerr, <<>>) ELSE
    LET rd == ReadAsset(L, Sprint(cc.ContractId), env)
    IN  IF rd.err # NoErr THEN Failed(L, rd.err, rd.calls) ELSE
    LET asset == ExpireTransition(rd.asset[1], cc, RFC3339(env.now))
        put   == PutState(L, Sprint(cc.ContractId), MarshalContract(asset), env)
        serr  == ExpireStateError(rd.asset[1].State)
    IN  IF put.err # NoErr THEN Failed(L, put.err, rd.calls \o put.calls)
        ELSE IF serr # NoErr
        THEN [ ledger |-> put.ledger, err |-> serr, out |-> Nil,
               calls |-> rd.calls \o put.calls ]
        ELSE [ ledger |-> put.ledger, err |-> NoErr, out |-> <<[TxId |-> GetTxID(env)]>>,
               calls |-> rd.calls \o put.calls ]

\* ExpireAsset writing the contract under the id of the package of the request
ExpireAssetKeyedByPackage(L, data, env) ==
    LET p == ParseRequest(data)
    IN  IF p.err # NoErr THEN Failed(L, p.err, <<>>) ELSE
    LET cc   == p.obj[1]
        gerr == ExpireGates(cc)
    IN  IF gerr # NoErr THEN Failed(L, gerr, <<>>) ELSE
    LET rd == ReadAsset(L, Sprint(cc.ContractId), env)
    IN  IF rd.err # NoErr THEN Failed(L, rd.err, rd.calls) ELSE
    LET serr == ExpireStateError(rd.asset[1].State)
    IN  IF serr # NoErr THEN Failed(L, serr, rd.calls) ELSE
    LET asset == ExpireTransition(rd.asset[1], cc, RFC3339(env.now))
        put   == PutState(L, Sprint(cc.PackageId), MarshalContract(asset), env)
    IN  IF put.err # NoErr THEN Failed(L, put.err, rd.calls \o put.calls)
        ELSE [ ledger |-> put.ledger, err |-> NoErr, out |-> <<[TxId |-> GetTxID(env)]>>,
               calls |-> rd.calls \o put.calls ]

ExpireAsset(L, data, env) ==
    LET p == ParseRequest(data)
    IN  IF p.err # NoErr THEN Failed(L, p.err, <<>>) ELSE
    LET cc   == p.obj[1]
        gerr == ExpireGates(cc)
    IN  IF gerr # NoErr THEN Failed(L, gerr, <<>>) ELSE
    LET rd == ReadAsset(L, Sprint(cc.ContractId), env)
    IN  IF rd.err # NoErr THEN Failed(L, rd.err, rd.calls) ELSE
    LET serr == ExpireStateError(rd.asset[1].State)
    IN  IF serr # NoErr THEN Failed(L, serr, rd.calls) ELSE
    LET asset == ExpireTransition(rd.asset[1], cc, RFC3339(env.now))
        put   == PutState(L, Sprint(cc.ContractId), MarshalContract(asset), env)
    IN  IF put.err # NoErr THEN Failed(L, put.err, rd.calls \o put.calls)
        ELSE [ ledger |-> put.ledger, err |-> NoErr, out |-> <<[TxId |-> GetTxID(env)]>>,
               calls |-> rd.calls \o put.calls ]

(***************************************************************************)
(* ReleaseAsset: the transition into "released", symmetric to ExpireAsset  *)
(* (the request type ReleaseAssetReq of dto.go carries the same fields).   *)
(***************************************************************************)
ReleaseStateError(state) ==
    IF state = ContractStateVoided THEN "contract voided, cannot release"
    ELSE IF state = ContractStateExpired THEN "contract expired, cannot release"
    ELSE IF state = ContractStateReleased THEN "contract already released"
    ELSE NoErr


\* ReleaseTransition that appends the Change and leaves the State as it was
ReleaseTransitionKeepsState(asset, cc, t) ==
    [asset EXCEPT
       !.UpdatedAt = t,
       !.Changes = Append(asset.Changes,
                     [ PackageID   |-> cc.PackageId,
                       PackageHash |-> cc.PackageHash,
                       PackageDate |-> t,
                       CallerSdn   |-> "",
                       Action      |-> "release",
                       NewState    |-> ContractStateReleased ])]

ReleaseTransition(asset, cc, t) ==
    [asset EXCEPT
       !.State = ContractStateReleased,
       !.UpdatedAt = t,
       !.Changes = Append(asset.Changes,
                     [ PackageID   |-> cc.PackageId,
                       PackageHash |-> cc.PackageHash,
                       PackageDate |-> t,
                       CallerSdn   |-> "",
                       Action      |-> "release",
                       NewState    |-> ContractStateReleased ])]

ReleaseAsset(L, data, env) ==
    LET p == ParseRequest(data)
    IN  IF p.err # NoErr THEN Failed(L, p.err, <<>>) ELSE
    LET cc   == p.obj[1]
        gerr == ExpireGates(cc)
    IN  IF gerr # NoErr THEN Failed(L, gerr, <<>>) ELSE
    LET rd == ReadAsset(L, Sprint(cc.ContractId), env)
    IN  IF rd.err # NoErr THEN Failed(L, rd.err, rd.calls) ELSE
    LET serr == ReleaseStateError(rd.asset[1].State)
    IN  IF serr # NoErr THEN Failed(L, serr, rd.calls) ELSE
    LET asset == ReleaseTransition(rd.asset[1], cc, RFC3339(env.now))
        put   == PutState(L, Sprint(cc.ContractId), MarshalContract(asset), env)
    IN  IF put.err # NoErr THEN Failed(L, put.err, rd.calls \o put.calls)
        ELSE [ ledger |-> put.ledger, err |-> NoErr, out |-> <<[TxId |-> GetTxID(env)]>>,
               calls |-> rd.calls \o put.calls ]

(***************************************************************************)
(* The chaincode under invocations: the ledger starts empty (InitLedger    *)
(* writes nothing); each step is one invocation, run to completion.        *)
(***************************************************************************)
Init ==
    /\ ledger = <<>>
    /\ resp = [op |-> "InitLedger", err |-> NoErr, out |-> Nil]
    /\ version = <<>>
    /\ inflight = {}
    /\ history = [created |-> {}, written |-> <<>>]

\* a call of the stub that has returned no error
IsCall(c, fn) == c.fn = fn /\ c.err = NoErr

\* the keys the calls have written
WrittenKeys(calls) ==
    { calls[i].key : i \in { j \in DOMAIN calls : IsCall(calls[j], "PutState") } }

\* the writes of the calls: for each key written, the value of its last PutState
WriteSet(calls) ==
    LET puts == { j \in DOMAIN calls : IsCall(calls[j], "PutState") }
    IN  { [key |-> calls[i].key, value |-> calls[i].value] :
            i \in { j \in puts : \A k \in puts : calls[k].key = calls[j].key => k <= j } }

\* the ledger with the writes applied
ApplyWrites(L, ws) ==
    [ k \in DOMAIN L \cup { w.key : w \in ws } |->
        IF \E w \in ws : w.key = k
        THEN (CHOOSE w \in ws : w.key = k).value
        ELSE L[k] ]

\* the history after an invocation that has returned err and out and has made
\* the writes
Record(h, op, err, out, writes) ==
    IF err # NoErr THEN h
    ELSE [ created |-> IF op = "CreateAsset"
                       THEN h.created \cup {out[1].ContractId}
                       ELSE h.created,
           written |-> ApplyWrites(h.written, writes) ]

\* the version of a key: 0 for a key that was never written
VersionOf(ver, key) == IF key \in DOMAIN ver THEN ver[key] ELSE 0

\* the versions after the commit of writes to the keys
Bump(ver, keys) ==
    [ k \in DOMAIN ver \cup keys |->
        IF k \in keys THEN VersionOf(ver, k) + 1 ELSE ver[k] ]

Invoke(op, r) ==
    /\ ledger' = r.ledger
    /\ resp' = [op |-> op, err |-> r.err, out |-> r.out]
    /\ version' = Bump(version, WrittenKeys(r.calls))
    /\ history' = Record(history, op, r.err, r.out, WriteSet(r.calls))
    /\ UNCHANGED inflight

NewAssetEnvelopes == Envelopes(NewAssetReqs)

VoidAssetEnvelopes == Envelopes(VoidAssetReqs)

InvokeCreateAsset ==
    \E data \in NewAssetEnvelopes, env \in StubEnvs :
        Invoke("CreateAsset", CreateAsset(ledger, data, env))

InvokeVoidAsset ==
    \E data \in VoidAssetEnvelopes, env \in Envs :
        Invoke("VoidAsset", VoidAsset(ledger, data, env))

InvokeExpireAsset ==
    \E data \in VoidAssetEnvelopes, env \in StubEnvs :
        Invoke("ExpireAsset", ExpireAsset(ledger, data, env))

InvokeReleaseAsset ==
    \E data \in VoidAssetEnvelopes, env \in StubEnvs :
        Invoke("ReleaseAsset", ReleaseAsset(ledger, data, env))

Next ==
    \/ InvokeCreateAsset
    \/ InvokeVoidAsset
    \/ InvokeExpireAsset

Spec == Init /\ [][Next]_vars

\* the chaincode with ReleaseAsset among its functions
NextWithRelease ==
    \/ InvokeCreateAsset
    \/ InvokeVoidAsset
    \/ InvokeExpireAsset
    \/ InvokeReleaseAsset

SpecWithRelease == Init /\ [][NextWithRelease]_vars

(***************************************************************************)
(* The chaincode with its read functions ReadAsset, AssetExists and        *)
(* GetAllAssets among the invocations.  A read returns what the function   *)
(* returns and leaves on the ledger what its calls of the stub have        *)
(* written.                                                                *)
(***************************************************************************)
RangeEnvs == EnvsWith({"none", "get", "next"})

Query(op, err, out, calls) ==
    /\ ledger' = ApplyWrites(ledger, WriteSet(calls))
    /\ version' = Bump(version, WrittenKeys(calls))
    /\ resp' = [op |-> op, err |-> err, out |-> out]
    /\ UNCHANGED <<inflight, history>>

InvokeReadAsset ==
    \E id \in ContractIds, env \in StubEnvs :
        LET r == ReadAsset(ledger, Sprint(id), env)
        IN  Query("ReadAsset", r.err, r.asset, r.calls)

InvokeAssetExists ==
    \E id \in ContractIds, env \in StubEnvs :
        LET r == AssetExists(ledger, Sprint(id), env)
        IN  Query("AssetExists", r.err, r.exists, r.calls)

InvokeGetAllAssets ==
    \E env \in RangeEnvs :
        LET r == GetAllAssets(ledger, env)
        IN  Query("GetAllAssets", r.err, r.assets, r.calls)

NextWithReads ==
    \/ InvokeCreateAsset
    \/ InvokeVoidAsset
    \/ InvokeExpireAsset
    \/ InvokeReadAsset
    \/ InvokeAssetExists
    \/ InvokeGetAllAssets

SpecWithReads == Init /\ [][NextWithReads]_vars

(***************************************************************************)
(* The chaincode under concurrent invocations.  An invocation is simulated *)
(* on the current world state: its GetState calls give the read set (each  *)
(* key with the version read), its PutState calls the write set, and the   *)
(* ledger is not written.  An invocation that returns an error is not      *)
(* submitted.  The ledger then takes the waiting invocations in any order: *)
(* one whose reads are all current is committed (its writes are applied    *)
(* and the versions of the written keys change), one with a stale read is  *)
(* aborted and leaves the ledger as it was.                                *)
(***************************************************************************)
\* invocations simulated and not yet committed or aborted
MaxInflight == 2

\* the error of an invocation aborted at commit for a stale read
MvccReadConflict == "MVCC_READ_CONFLICT"

ReadSet(calls, ver) ==
    { [key |-> calls[i].key, version |-> VersionOf(ver, calls[i].key)] :
        i \in { j \in DOMAIN calls : IsCall(calls[j], "GetState") } }

\* the fault-free environments of a simulation
SimEnvs == { e \in StubEnvs : e.fault = "none" }

Simulate(op, r, data, env) ==
    /\ r.err = NoErr
    /\ Cardinality(inflight) < MaxInflight
    /\ inflight' = inflight \cup { [ op     |-> op,
                                     data   |-> data,
                                     env    |-> env,
                                     out    |-> r.out,
                                     reads  |-> ReadSet(r.calls, version),
                                     writes |-> WriteSet(r.calls) ] }
    /\ UNCHANGED <<ledger, resp, version, history>>

SimulateCreateAsset ==
    \E data \in NewAssetEnvelopes, env \in SimEnvs :
        Simulate("CreateAsset", CreateAsset(ledger, data, env), data, env)

SimulateVoidAsset ==
    \E data \in VoidAssetEnvelopes, env \in SimEnvs :
        Simulate("VoidAsset", VoidAsset(ledger, data, env), data, env)

SimulateExpireAsset ==
    \E data \in VoidAssetEnvelopes, env \in SimEnvs :
        Simulate("ExpireAsset", ExpireAsset(ledger, data, env), data, env)

\* every version the invocation has read is the version of the key now
ReadsCurrent(p, ver) == \A rd \in p.reads : VersionOf(ver, rd.key) = rd.version

WrittenBy(p) == { w.key : w \in p.writes }

Commit ==
    \E p \in inflight :
        /\ ReadsCurrent(p, version)
        /\ ledger' = ApplyWrites(ledger, p.writes)
        /\ version' = Bump(version, WrittenBy(p))
        /\ resp' = [op |-> p.op, err |-> NoErr, out |-> p.out]
        /\ history' = Record(history, p.op, NoErr, p.out, p.writes)
        /\ inflight' = inflight \ {p}

Abort ==
    \E p \in inflight :
        /\ ~ReadsCurrent(p, version)
        /\ resp' = [op |-> p.op, err |-> MvccReadConflict, out |-> Nil]
        /\ inflight' = inflight \ {p}
        /\ UNCHANGED <<ledger, version, history>>

NextConcurrent ==
    \/ SimulateCreateAsset
    \/ SimulateVoidAsset
    \/ SimulateExpireAsset
    \/ Commit
    \/ Abort

SpecConcurrent == Init /\ [][NextConcurrent]_vars

(***************************************************************************)
(* The validators of package contract under calls: a behaviour is one call *)
(* of ValidateSignaturesComplete on a container, or of IsRole on a         *)
(* participant, with arguments drawn from the sets below; resp holds the   *)
(* call and, once it has returned, what it returned; the ledger is not     *)
(* touched.                                                                *)
(***************************************************************************)
\* the longest list of participants and of signature packages of a container
MaxParticipants == 2

MaxPackages == 2

Users == {"c102", "c205", "n48"}

RoleLists ==
    { <<>>, <<Signatory>>, <<Creator>>, <<Creator, Signatory>>, <<Signatory, Creator>> }

Participant(user, roles) == [UserId |-> user, Roles |-> roles]

\* the participants are two of the users, so that a package of the third user
\* is a package of no participant
ParticipantUsers == {"c102", "c205"}

Participants == { Participant(u, rs) : u \in ParticipantUsers, rs \in RoleLists }

\* base64 digests, 44 characters long
BlockHash == "47DEQpj8HBSa+/TImW+5JCeuQeRkm5NMpJWZG3hSuFU="

PackageHash == "n4bQgYhMfWWaL+qgxVrQFaO/TxsrC4Is0V1sFbDwCgg="

RECURSIVE Repeat(_, _)
Repeat(s, n) == IF n = 0 THEN "" ELSE s \o Repeat(s, n - 1)

\* a base64 RSA-2048 signature, 344 characters long
RsaSignature == Repeat("Sig=", 86)

\* what is wrong with a signature package
Defects == {"none", "name", "signature"}

SignedPackage(user, defect) ==
    [ ContractSignaturePackage |->
        [ ContractId   |-> FirstId,
          ContractHash |-> BlockHash,
          UserId       |-> user,
          UserFullName |-> IF defect = "name" THEN "" ELSE "Name of " \o user,
          DateSigned   |-> 1 ],
      ContractSignaturePackageHash |-> PackageHash,
      Signature |-> IF defect = "signature" THEN "" ELSE RsaSignature ]

SignedPackages == { SignedPackage(u, d) : u \in Users, d \in Defects }

SeqsUpTo(S, n) == UNION { [1..k -> S] : k \in 0..n }

\* containers in and after the consent phase
SignedContainers ==
    { [ Contract |-> [Block(FirstId) EXCEPT !.Participants = ps,
                                            !.SignatureMethod.PackageMethodId = m],
        ContractSignatures |-> [ContractHash |-> h, Signatures |-> sigs] ] :
        ps \in SeqsUpTo(Participants, MaxParticipants),
        sigs \in SeqsUpTo(SignedPackages, MaxPackages),
        m \in {1, SignPackageMethodId_Embedded},
        h \in {BlockHash, ""} }

RoleNames == {"", Signatory, Creator, "Signatory"}

\* the blocks given to ContractBlock.Validate: each rule kept or broken, the
\* storage years at and beyond both ends of their range, the expiry date
\* unset, before, at and after the date of sealing
ValidatedBlocks ==
    { [Block(FirstId) EXCEPT
         !.ContractFamilyId    = f,
         !.ContractTypeId      = ty,
         !.ContractTypeVersion = tv,
         !.StorageYears        = sy,
         !.SealedOnDate        = 2,
         !.ContractOptions     = [ ExpiryDate              |-> ex,
                                   DaysToSign              |-> ds,
                                   MaxDaysToSign           |-> mds,
                                   AllowSignatureExtension |-> ext ] ] :
        f \in {5, 6}, ty \in {3, 4}, tv \in {0, 1},
        sy \in {0, 1, 30, 31},
        ex \in {Nil, <<1>>, <<2>>, <<3>>},
        ds \in {0, 1}, mds \in {0, 1}, ext \in BOOLEAN }

\* the key information of a package: none, a certificate, a key, and a key
\* short of one of its three fields
KeyInfos ==
    { [KeyId |-> id, KeyType |-> ty, KeySource |-> src, X509Certificate |-> cert] :
        id \in {"", "key-1"}, ty \in {"", "rsa"}, src \in {"", "azure"},
        cert \in {"", "MIIC"} }

\* the packages given to ContractSignaturePackage.Validate: every field the
\* function reads, set or at its zero value
ValidatedPackages ==
    { [ SignatureId       |-> sid,
        ContractId        |-> cid,
        ContractHash      |-> h,
        UserId            |-> u,
        UserFullName      |-> n,
        DateSigned        |-> d,
        IpAddress         |-> ip,
        SignatureProvider |-> prov,
        SignatureType     |-> st,
        KeyInfo           |-> k ] :
        sid \in {"", "sig-1"}, cid \in {0, FirstId}, h \in {"", BlockHash},
        u \in {"", "c102"}, n \in {"", "Name of c102"}, d \in {0, 1},
        ip \in {"", "10.0.0.1"}, prov \in {"", "Subskribo"},
        st \in {"", "advanced"}, k \in KeyInfos }

\* the signature methods: OriginalContent, Constructed, Embedded
SignPackageMethodIds == {1, SignPackageMethodId_Constructed, SignPackageMethodId_Embedded}

\* the release instructions given to ReleaseInstructionDetail.Validate:
\* instructions that are empty, one character short, and just long enough;
\* every other field the function reads, set or at its zero value; a notary's
\* package that asks for no approval and one that was approved
ReleaseInstructionDetails ==
    { [ Instructions                 |-> ins,
        IsCustomRelease              |-> custom,
        StandardReleaseTemplateId    |-> tid,
        NotaryPackage                |-> np,
        AcceptancePackage            |-> ap,
        NotarySignature              |-> ns,
        AcceptanceSignature          |-> as,
        IsEvidenceRequiredForRelease |-> ev,
        ConsensusMethod              |-> cm ] :
        ins \in { "", Repeat("i", InstructionMinLength - 1),
                  Repeat("i", InstructionMinLength) },
        custom \in BOOLEAN, tid \in {0, 1},
        np \in {Nil, <<[ApprovalState |-> "none"]>>, <<[ApprovalState |-> "approved"]>>},
        ap \in {Nil, <<[AcceptedOnDate |-> 1]>>},
        ns \in {"", "notary-sig"}, as \in {"", "creator-sig"},
        ev \in BOOLEAN, cm \in {"", "majority"} }

\* the calls: the function, its receiver and arguments
ValidatorCalls ==
    { [op |-> "ValidateSignaturesComplete", arg |-> c, returned |-> FALSE] :
        c \in SignedContainers }
      \cup { [op |-> "IsRole", arg |-> <<c, role>>, returned |-> FALSE] :
               c \in Participants, role \in RoleNames }
      \cup { [op |-> "Validate", arg |-> cb, returned |-> FALSE] :
               cb \in ValidatedBlocks }
      \cup { [ op |-> "ContractSignaturePackage.Validate", arg |-> <<sp, m>>,
               returned |-> FALSE ] :
               sp \in ValidatedPackages, m \in SignPackageMethodIds }
      \cup { [ op |-> "ReleaseInstructionDetail.Validate", arg |-> <<rid, ev>>,
               returned |-> FALSE ] :
               rid \in ReleaseInstructionDetails, ev \in BOOLEAN }

InitValidators ==
    /\ ledger = <<>>
    /\ resp \in ValidatorCalls
    /\ version = <<>>
    /\ inflight = {}
    /\ history = [created |-> {}, written |-> <<>>]

CallValidateSignaturesComplete ==
    /\ resp.op = "ValidateSignaturesComplete"
    /\ ~resp.returned
    /\ resp' = [ op       |-> resp.op,
                 arg      |-> resp.arg,
                 returned |-> TRUE,
                 err      |-> ValidateSignaturesComplete(resp.arg) ]
    /\ UNCHANGED <<ledger, version, inflight, history>>

CallIsRole ==
    /\ resp.op = "IsRole"
    /\ ~resp.returned
    /\ resp' = [ op       |-> resp.op,
                 arg      |-> resp.arg,
                 returned |-> TRUE,
                 out      |-> IsRole(resp.arg[1], resp.arg[2]) ]
    /\ UNCHANGED <<ledger, version, inflight, history>>

CallValidate ==
    /\ resp.op = "Validate"
    /\ ~resp.returned
    /\ resp' = [ op       |-> resp.op,
                 arg      |-> resp.arg,
                 returned |-> TRUE,
                 err      |-> Validate(resp.arg) ]
    /\ UNCHANGED <<ledger, version, inflight, history>>

CallContractSignaturePackageValidate ==
    /\ resp.op = "ContractSignaturePackage.Validate"
    /\ ~resp.returned
    /\ resp' = [ op       |-> resp.op,
                 arg      |-> resp.arg,
                 returned |-> TRUE,
                 err      |-> ContractSignaturePackageValidate(resp.arg[1], resp.arg[2]) ]
    /\ UNCHANGED <<ledger, version, inflight, history>>

CallReleaseInstructionDetailValidate ==
    /\ resp.op = "ReleaseInstructionDetail.Validate"
    /\ ~resp.returned
    /\ resp' = [ op       |-> resp.op,
                 arg      |-> resp.arg,
                 returned |-> TRUE,
                 err      |-> ReleaseInstructionDetailValidate(resp.arg[1], resp.arg[2]) ]
    /\ UNCHANGED <<ledger, version, inflight, history>>

NextValidators ==
    \/ CallValidateSignaturesComplete
    \/ CallIsRole
    \/ CallValidate
    \/ CallContractSignaturePackageValidate
    \/ CallReleaseInstructionDetailValidate

SpecValidators == InitValidators /\ [][NextValidators]_vars


(***************************************************************************)
(* Vocabulary of the properties.                                           *)
(***************************************************************************)
\* the Contract stored under key
Stored(L, key) == UnmarshalContract(L[key])

IsPrefix(s, t) == Len(s) <= Len(t) /\ SubSeq(t, 1, Len(s)) = s

HashBinds(req) == JsonHashS256(req.ImmutableContract).hash = req.ImmutableContractHash

SchemaVersionsAgree(req) ==
    req.ImmutableContract.Contract.SchemaVersion
      = req.ImmutableContract.Contract.Definition.SchemaVersion

BlockValidates(req) == Validate(req.ImmutableContract.Contract) = NoErr

\* the request passes the hash, schema-version and validator gates
GatesPass(req) == HashBinds(req) /\ SchemaVersionsAgree(req) /\ BlockValidates(req)

Terminal == {ContractStateVoided, ContractStateExpired, ContractStateReleased}

\* t is s followed by exactly one Change of the action, the state and the
\* package reference of the request
AppendsOne(s, t, req, action, state) ==
    /\ Len(t) = Len(s) + 1
    /\ SubSeq(t, 1, Len(s)) = s
    /\ t[Len(t)].Action = action
    /\ t[Len(t)].NewState = state
    /\ t[Len(t)].PackageID = req.PackageId
    /\ t[Len(t)].PackageHash = req.PackageHash

\* the invocation reads and writes the ledger without a fault of the stub or shim
NoFault(env) == env.fault = "none"

(***************************************************************************)
(* C1.  VoidAsset on an existing contract whose stored State is "active",  *)
(* with a request that passes the hash, schema-version and validator gates *)
(* (and no fault of the stub or shim), succeeds and writes back a Contract *)
(* whose State is "voided" and whose Changes are the previous Changes      *)
(* followed by exactly one Change with Action "void", NewState "voided"    *)
(* and the PackageId and PackageHash of the request.                       *)
(***************************************************************************)
VoidFromActiveSucceeds ==
    \A data \in VoidAssetEnvelopes, env \in Envs :
        LET req == data.req
            key == Sprint(req.ContractId)
        IN  ( /\ data.enc = "ok"
              /\ GatesPass(req)
              /\ NoFault(env)
              /\ key \in DOMAIN ledger
              /\ Stored(ledger, key).State = "active" )
            => LET r == VoidAsset(ledger, data, env)
               IN  /\ r.err = NoErr
                   /\ r.out = <<[TxId |-> env.txid]>>
                   /\ DOMAIN r.ledger = DOMAIN ledger
                   /\ Stored(r.ledger, key).State = "voided"
                   /\ AppendsOne(Stored(ledger, key).Changes,
                                 Stored(r.ledger, key).Changes, req, "void", "voided")

\* a VoidAsset has succeeded: a contract is voided with the one Change of the void
VoidFromActiveWitness ==
    /\ resp.op = "VoidAsset"
    /\ resp.err = NoErr
    /\ \E key \in DOMAIN ledger :
          /\ Stored(ledger, key).State = "voided"
          /\ Len(Stored(ledger, key).Changes) = 1
          /\ Stored(ledger, key).Changes[1].Action = "void"
          /\ Stored(ledger, key).Changes[1].PackageID \in PackageIds

(***************************************************************************)
(* C2.  VoidAsset is legal only from "active": on a contract whose stored  *)
(* State is "voided" it fails with "contract already voided", on "expired" *)
(* with "contract expired, cannot void", on "released" with "contract      *)
(* released, cannot void" (the request passing the earlier gates); in each *)
(* case, whatever the request, the ledger is left as it was.               *)
(***************************************************************************)
VoidFromTerminalFails ==
    \A data \in VoidAssetEnvelopes, env \in Envs :
        LET req == data.req
            key == Sprint(req.ContractId)
        IN  ( /\ data.enc = "ok"
              /\ key \in DOMAIN ledger
              /\ Stored(ledger, key).State \in Terminal )
            => LET r     == VoidAsset(ledger, data, env)
                   state == Stored(ledger, key).State
               IN  /\ r.ledger = ledger
                   /\ r.err # NoErr
                   /\ (GatesPass(req) /\ NoFault(env)) =>
                         r.err = CASE state = "voided"   -> "contract already voided"
                                   [] state = "expired"  -> "contract expired, cannot void"
                                   [] state = "released" -> "contract released, cannot void"

\* a VoidAsset on an expired contract has been refused
VoidFromTerminalWitness ==
    /\ resp.op = "VoidAsset"
    /\ resp.err = "contract expired, cannot void"
    /\ \E key \in DOMAIN ledger : Stored(ledger, key).State = "expired"

(***************************************************************************)
(* C3.  ExpireAsset on an existing contract whose stored State is          *)
(* "active", with a request that passes the hash, schema-version and       *)
(* validator gates (and no fault of the stub), succeeds and writes back a  *)
(* Contract whose State is "expired" and whose Changes are the previous    *)
(* Changes followed by exactly one Change with Action "expire" and         *)
(* NewState "expired".                                                     *)
(***************************************************************************)
ExpireFromActiveSucceeds ==
    \A data \in VoidAssetEnvelopes, env \in StubEnvs :
        LET req == data.req
            key == Sprint(req.ContractId)
        IN  ( /\ data.enc = "ok"
              /\ GatesPass(req)
              /\ NoFault(env)
              /\ key \in DOMAIN ledger
              /\ Stored(ledger, key).State = "active" )
            => LET r == ExpireAsset(ledger, data, env)
               IN  /\ r.err = NoErr
                   /\ r.out = <<[TxId |-> env.txid]>>
                   /\ DOMAIN r.ledger = DOMAIN ledger
                   /\ Stored(r.ledger, key).State = "expired"
                   /\ AppendsOne(Stored(ledger, key).Changes,
                                 Stored(r.ledger, key).Changes, req, "expire", "expired")

\* an ExpireAsset has succeeded: a contract is expired with the one Change of it
ExpireFromActiveWitness ==
    /\ resp.op = "ExpireAsset"
    /\ resp.err = NoErr
    /\ \E key \in DOMAIN ledger :
          /\ Stored(ledger, key).State = "expired"
          /\ Len(Stored(ledger, key).Changes) = 1
          /\ Stored(ledger, key).Changes[1].Action = "expire"
          /\ Stored(ledger, key).Changes[1].NewState = "expired"

(***************************************************************************)
(* C4.  ExpireAsset on a contract whose stored State is "voided",          *)
(* "expired" or "released" fails with a state-conflict error whose message *)
(* names the attempted action (expire) and the blocking state: "contract   *)
(* voided, cannot expire", "contract already expired", "contract released, *)
(* cannot expire" (the request passing the earlier gates); whatever the    *)
(* request, the ledger is left as it was.                                  *)
(***************************************************************************)
ExpireFromTerminalFails ==
    \A data \in VoidAssetEnvelopes, env \in StubEnvs :
        LET req == data.req
            key == Sprint(req.ContractId)
        IN  ( /\ data.enc = "ok"
              /\ key \in DOMAIN ledger
              /\ Stored(ledger, key).State \in Terminal )
            => LET r     == ExpireAsset(ledger, data, env)
                   state == Stored(ledger, key).State
               IN  /\ r.ledger = ledger
                   /\ r.err # NoErr
                   /\ (GatesPass(req) /\ NoFault(env)) =>
                         r.err = CASE state = "voided"   -> "contract voided, cannot expire"
                                   [] state = "expired"  -> "contract already expired"
                                   [] state = "released" -> "contract released, cannot expire"

\* an ExpireAsset on a voided contract has been refused
ExpireFromTerminalWitness ==
    /\ resp.op = "ExpireAsset"
    /\ resp.err = "contract voided, cannot expire"
    /\ \E key \in DOMAIN ledger : Stored(ledger, key).State = "voided"

(***************************************************************************)
(* C5.  Voided, Expired and Released are terminal: in every step of every  *)
(* sequence of invocations a contract whose stored State is not "active"   *)
(* keeps its stored State; no contract ever has more than one Change (at   *)
(* most one transition succeeds per contract id); and once a VoidAsset has *)
(* voided a contract, a further VoidAsset on it fails with "contract       *)
(* already voided".                                                        *)
(***************************************************************************)
TerminalStep ==
    /\ \A key \in DOMAIN ledger :
          Stored(ledger, key).State # "active"
            => /\ key \in DOMAIN ledger'
               /\ Stored(ledger', key).State = Stored(ledger, key).State
    /\ \A key \in DOMAIN ledger' : Len(Stored(ledger', key).Changes) <= 1
    /\ \A key \in DOMAIN ledger :
          ( /\ Stored(ledger, key).State = "active"
            /\ key \in DOMAIN ledger'
            /\ Stored(ledger', key).State = "voided" )
            => \A data \in VoidAssetEnvelopes, env \in Envs :
                  ( /\ data.enc = "ok"
                    /\ Sprint(data.req.ContractId) = key
                    /\ GatesPass(data.req)
                    /\ NoFault(env) )
                    => VoidAsset(ledger', data, env).err = "contract already voided"

TerminalStatesAreFinal == [][TerminalStep]_vars

\* a second VoidAsset on a voided contract has been refused
TerminalStatesWitness ==
    /\ resp.op = "VoidAsset"
    /\ resp.err = "contract already voided"
    /\ \E key \in DOMAIN ledger :
          /\ Stored(ledger, key).State = "voided"
          /\ Len(Stored(ledger, key).Changes) = 1

(***************************************************************************)
(* C6.  Changes is append-only: in every step of every sequence of         *)
(* invocations, every contract on the ledger stays on the ledger and the   *)
(* Changes stored for it before the step are a prefix of the Changes       *)
(* stored for it after the step.                                           *)
(***************************************************************************)
AppendOnlyStep ==
    \A key \in DOMAIN ledger :
        /\ key \in DOMAIN ledger'
        /\ IsPrefix(Stored(ledger, key).Changes, Stored(ledger', key).Changes)

ChangesAppendOnly == [][AppendOnlyStep]_vars

\* invocations have gone on after a Change was recorded: a CreateAsset for the
\* id of a contract that holds a Change was refused, and the Change is kept
ChangesAppendOnlyWitness ==
    /\ resp.op = "CreateAsset"
    /\ resp.err # NoErr
    /\ \E key \in DOMAIN ledger :
          /\ resp.err = "the contract " \o key \o " already exists"
          /\ Len(Stored(ledger, key).Changes) = 1

(***************************************************************************)
(* C7.  CreateAsset with a document whose digest equals the supplied hash, *)
(* that passes the validator, and whose ContractId is not yet on the       *)
(* ledger (and no fault of the stub) stores, under the key that is the     *)
(* decimal string of ContractId, a new Contract with State "active", empty *)
(* Changes, Version equal to the document's SchemaVersion, ContractHash    *)
(* equal to the supplied hash and CreatedAt equal to UpdatedAt, leaves the *)
(* other entries as they were, and returns that ContractId with the        *)
(* transaction id.                                                         *)
(***************************************************************************)
CreateStoresActiveContract ==
    \A data \in NewAssetEnvelopes, env \in StubEnvs :
        LET req == data.req
            id  == req.ImmutableContract.Contract.ContractID
            key == Sprint(id)
        IN  ( /\ data.enc = "ok"
              /\ HashBinds(req)
              /\ BlockValidates(req)
              /\ NoFault(env)
              /\ key \notin DOMAIN ledger )
            => LET r == CreateAsset(ledger, data, env)
               IN  /\ r.err = NoErr
                   /\ r.out = <<[ContractId |-> id, TxId |-> env.txid]>>
                   /\ DOMAIN r.ledger = DOMAIN ledger \cup {key}
                   /\ \A k \in DOMAIN ledger : r.ledger[k] = ledger[k]
                   /\ LET c == Stored(r.ledger, key)
                      IN  /\ c.ContractId = id
                          /\ c.State = "active"
                          /\ c.Changes = <<>>
                          /\ c.Version = req.ImmutableContract.Contract.SchemaVersion
                          /\ c.ContractHash = req.ImmutableContractHash
                          /\ c.CreatedAt = c.UpdatedAt
                          /\ c.CreatedAt = RFC3339(env.now)

\* a CreateAsset has succeeded for a second contract: the response names the
\* new contract, stored active with empty Changes and the block's SchemaVersion
CreateStoresWitness ==
    /\ resp.op = "CreateAsset"
    /\ resp.err = NoErr
    /\ Cardinality(DOMAIN ledger) = 2
    /\ \E key \in DOMAIN ledger :
          /\ resp.out = <<[ContractId |-> Stored(ledger, key).ContractId, TxId |-> "tx-1"]>>
          /\ key = Sprint(Stored(ledger, key).ContractId)
          /\ Stored(ledger, key).State = "active"
          /\ Stored(ledger, key).Changes = <<>>
          /\ Stored(ledger, key).Version = 2

(***************************************************************************)
(* C8.  A contract is created at most once: CreateAsset for a ContractId   *)
(* that is on the ledger fails, with "the contract <id> already exists"    *)
(* when the document passes the hash and validator gates (and GetState     *)
(* reports no error), and leaves the ledger as it was, whatever the State  *)
(* of the stored contract; a voided or expired contract is never reset to  *)
(* "active" with empty Changes.                                            *)
(***************************************************************************)
CreateOnExistingFails ==
    \A data \in NewAssetEnvelopes, env \in StubEnvs :
        LET req == data.req
            id  == req.ImmutableContract.Contract.ContractID
            key == Sprint(id)
        IN  ( /\ data.enc = "ok"
              /\ key \in DOMAIN ledger )
            => LET r == CreateAsset(ledger, data, env)
               IN  /\ r.ledger = ledger
                   /\ r.err # NoErr
                   /\ r.out = Nil
                   /\ (HashBinds(req) /\ BlockValidates(req) /\ env.fault # "get") =>
                         r.err = "the contract " \o Sprint(id) \o " already exists"

\* a CreateAsset for the id of an expired contract was refused; the contract
\* is still expired
CreateOnExistingWitness ==
    /\ resp.op = "CreateAsset"
    /\ \E key \in DOMAIN ledger :
          /\ resp.err = "the contract " \o key \o " already exists"
          /\ Stored(ledger, key).State = "expired"

(***************************************************************************)
(* C9.  No partial writes: every CreateAsset, VoidAsset or ExpireAsset     *)
(* invocation that returns an error (empty or undecodable envelope, hash   *)
(* mismatch, schema-version mismatch, validation failure, unknown id,      *)
(* duplicate create, illegal transition, an error of the ledger) returns   *)
(* no response and leaves the whole ledger as it was; in particular a      *)
(* CreateAsset whose supplied hash differs from the digest writes nothing. *)
(***************************************************************************)
ErrorWritesNothing(r) == r.err # NoErr => (r.ledger = ledger /\ r.out = Nil)

NoPartialWrites ==
    /\ \A data \in NewAssetEnvelopes, env \in StubEnvs :
          LET r == CreateAsset(ledger, data, env)
          IN  /\ ErrorWritesNothing(r)
              /\ (data.enc = "ok" /\ ~HashBinds(data.req)) =>
                    (r.err = "invalid immutable contract hash" /\ r.ledger = ledger)
    /\ \A data \in VoidAssetEnvelopes, env \in Envs :
          ErrorWritesNothing(VoidAsset(ledger, data, env))
    /\ \A data \in VoidAssetEnvelopes, env \in StubEnvs :
          ErrorWritesNothing(ExpireAsset(ledger, data, env))

\* a CreateAsset with a hash that does not match was refused on a ledger that
\* holds a contract
NoPartialWritesWitness ==
    /\ resp.op = "CreateAsset"
    /\ resp.err = "invalid immutable contract hash"
    /\ resp.out = Nil
    /\ DOMAIN ledger # {}

(***************************************************************************)
(* C10.  The gates of every lifecycle operation are evaluated in the order *)
(* (1) hash binding, (2) schema-version cross-check, (3) validator,        *)
(* (4) current-state legality (existence for CreateAsset), and the error   *)
(* returned is that of the earliest failing gate (no error when none       *)
(* fails).                                                                 *)
(***************************************************************************)
\* the earliest gate the request fails on the ledger L, 0 when it passes all
FirstFailingGate(op, req, L) ==
    IF ~HashBinds(req) THEN 1
    ELSE IF ~SchemaVersionsAgree(req) THEN 2
    ELSE IF ~BlockValidates(req) THEN 3
    ELSE IF op = "CreateAsset"
    THEN (IF Sprint(req.ImmutableContract.Contract.ContractID) \in DOMAIN L THEN 4 ELSE 0)
    ELSE IF Sprint(req.ContractId) \notin DOMAIN L THEN 4
    ELSE IF Stored(L, Sprint(req.ContractId)).State # "active" THEN 4
    ELSE 0

\* the errors of the state gate: the asset is missing, exists, or is in a
\* state the operation is not legal from
StateGateErrors(req) ==
    { "the asset " \o Sprint(req.ContractId) \o " does not exist",
      "contract already voided", "contract expired, cannot void",
      "contract released, cannot void", "contract voided, cannot expire",
      "contract already expired", "contract released, cannot expire" }

ErrorIsOfGate(err, gate, op, req) ==
    CASE gate = 0 -> err = NoErr
      [] gate = 1 -> err = "invalid immutable contract hash"
      [] gate = 2 -> err = "contract schema version does not match with definition"
      [] gate = 3 -> err = Validate(req.ImmutableContract.Contract)
      [] gate = 4 ->
           IF op = "CreateAsset"
           THEN err = "the contract "
                        \o Sprint(req.ImmutableContract.Contract.ContractID)
                        \o " already exists"
           ELSE err \in StateGateErrors(req)

VoidGatesInOrder ==
    \A data \in VoidAssetEnvelopes, env \in Envs :
        (data.enc = "ok" /\ NoFault(env))
          => ErrorIsOfGate(VoidAsset(ledger, data, env).err,
                           FirstFailingGate("VoidAsset", data.req, ledger),
                           "VoidAsset", data.req)

ExpireGatesInOrder ==
    \A data \in VoidAssetEnvelopes, env \in StubEnvs :
        (data.enc = "ok" /\ NoFault(env))
          => ErrorIsOfGate(ExpireAsset(ledger, data, env).err,
                           FirstFailingGate("ExpireAsset", data.req, ledger),
                           "ExpireAsset", data.req)

CreateGatesInOrder ==
    \A data \in NewAssetEnvelopes, env \in StubEnvs :
        (data.enc = "ok" /\ NoFault(env))
          => ErrorIsOfGate(CreateAsset(ledger, data, env).err,
                           FirstFailingGate("CreateAsset", data.req, ledger),
                           "CreateAsset", data.req)

GatesInOrder == VoidGatesInOrder /\ ExpireGatesInOrder /\ CreateGatesInOrder

(***************************************************************************)
(* C11.  VoidAsset and ExpireAsset succeed on a contract only if the       *)
(* digest of the submitted ImmutableContract equals the ContractHash       *)
(* stored for that contract at its creation: a document that differs from  *)
(* the one the contract was created with is rejected even when its own     *)
(* claimed hash matches its digest.                                        *)
(***************************************************************************)
\* the digest of the document of the request is the ContractHash stored under key
DigestIsStored(req, key) ==
    JsonHashS256(req.ImmutableContract).hash = Stored(ledger, key).ContractHash

TransitionsBoundToStoredHash ==
    /\ \A data \in VoidAssetEnvelopes, env \in Envs :
          LET key == Sprint(data.req.ContractId)
          IN  ( /\ data.enc = "ok"
                /\ key \in DOMAIN ledger
                /\ VoidAsset(ledger, data, env).err = NoErr )
              => DigestIsStored(data.req, key)
    /\ \A data \in VoidAssetEnvelopes, env \in StubEnvs :
          LET key == Sprint(data.req.ContractId)
          IN  ( /\ data.enc = "ok"
                /\ key \in DOMAIN ledger
                /\ ExpireAsset(ledger, data, env).err = NoErr )
              => DigestIsStored(data.req, key)

(***************************************************************************)
(* C12.  CreateAsset stores a new Contract only if                         *)
(* ValidateSignaturesComplete passes on the submitted ImmutableContract:   *)
(* every CreateAsset that succeeds is for a document on which              *)
(* ValidateSignaturesComplete returns no error.                            *)
(***************************************************************************)
CreateRequiresSignaturesComplete ==
    \A data \in NewAssetEnvelopes, env \in StubEnvs :
        ( /\ data.enc = "ok"
          /\ CreateAsset(ledger, data, env).err = NoErr )
        => ValidateSignaturesComplete(data.req.ImmutableContract) = NoErr

(***************************************************************************)
(* C13.  The validator gate of CreateAsset, VoidAsset and ExpireAsset      *)
(* rejects a ContractBlock whose nested structures violate their rules: a  *)
(* document whose SignatureMethod is invalid, or whose non-nil             *)
(* ProxyInstructions fail their rule, makes the operation fail and write   *)
(* nothing, with that rule's error when the document passes the hash and   *)
(* schema-version gates and the rules of the block itself.                 *)
(***************************************************************************)
\* the first rule of a nested structure that the block violates
NestedRuleError(cb) ==
    IF SignatureMethodValidate(cb.SignatureMethod) # NoErr
    THEN SignatureMethodValidate(cb.SignatureMethod)
    ELSE IF cb.ProxyInstructions # Nil
    THEN ContractProxyInstructionsValidate(cb.ProxyInstructions[1])
    ELSE NoErr

RejectsNested(r, req) ==
    NestedRuleError(req.ImmutableContract.Contract) # NoErr
      => /\ r.err # NoErr
         /\ r.ledger = ledger
         /\ GatesPass(req) => r.err = NestedRuleError(req.ImmutableContract.Contract)

ValidatorRejectsNestedStructures ==
    /\ \A data \in NewAssetEnvelopes, env \in StubEnvs :
          data.enc = "ok" => RejectsNested(CreateAsset(ledger, data, env), data.req)
    /\ \A data \in VoidAssetEnvelopes, env \in Envs :
          data.enc = "ok" => RejectsNested(VoidAsset(ledger, data, env), data.req)
    /\ \A data \in VoidAssetEnvelopes, env \in StubEnvs :
          data.enc = "ok" => RejectsNested(ExpireAsset(ledger, data, env), data.req)

(***************************************************************************)
(* C14.  CreateAsset is gated by the schema-version cross-check: a         *)
(* CreateAsset whose ContractBlock.SchemaVersion differs from              *)
(* Definition.SchemaVersion fails, with the schema-version-mismatch error  *)
(* when its hash matches, and stores nothing; so every stored Contract has *)
(* the Version that is the Definition.SchemaVersion of the document whose  *)
(* digest it holds.                                                        *)
(***************************************************************************)
CreateGatedBySchemaVersion ==
    /\ \A data \in NewAssetEnvelopes, env \in StubEnvs :
          (data.enc = "ok" /\ ~SchemaVersionsAgree(data.req))
            => LET r == CreateAsset(ledger, data, env)
               IN  /\ r.err # NoErr
                   /\ r.ledger = ledger
                   /\ HashBinds(data.req) =>
                        r.err = "contract schema version does not match with definition"
    /\ \A key \in DOMAIN ledger :
          \A ic \in Documents :
              JsonHashS256(ic).hash = Stored(ledger, key).ContractHash
                => Stored(ledger, key).Version = ic.Contract.Definition.SchemaVersion

(***************************************************************************)
(* Vocabulary of the properties of the validators.                         *)
(***************************************************************************)
\* the call of the function op has returned
Returned(op) == resp.op = op /\ resp.returned

\* role is a non-empty string and an element of the participant's Roles
HoldsRole(c, role) == role # "" /\ \E i \in 1..Len(c.Roles) : c.Roles[i] = role

\* the positions of the participants of the block that hold the signatory role
Signatories(cb) ==
    { i \in 1..Len(cb.Participants) : HoldsRole(cb.Participants[i], Signatory) }

\* some signature package of the container has the UserId of the participant
HasPackage(c, p) ==
    \E j \in 1..Len(c.ContractSignatures.Signatures) :
        c.ContractSignatures.Signatures[j].ContractSignaturePackage.UserId = p.UserId

(***************************************************************************)
(* C15.  ValidateSignaturesComplete returns an error whenever some         *)
(* participant holding the signatory role has no signature package with    *)
(* that participant's UserId, whatever the number and the order of the     *)
(* participants and of the packages.                                       *)
(***************************************************************************)
MissingPackageDetected ==
    Returned("ValidateSignaturesComplete")
      => LET c == resp.arg
         IN  (\E i \in Signatories(c.Contract) : ~HasPackage(c, c.Contract.Participants[i]))
               => resp.err # NoErr

(***************************************************************************)
(* C16.  ValidateSignaturesComplete returns an error when the container    *)
(* has no signature package, and when the number of its signature packages *)
(* differs from the number of participants whose Roles contain             *)
(* "signatory".                                                            *)
(***************************************************************************)
PackageCountEnforced ==
    Returned("ValidateSignaturesComplete")
      => LET c == resp.arg
             n == Len(c.ContractSignatures.Signatures)
         IN  (n = 0 \/ n # Cardinality(Signatories(c.Contract))) => resp.err # NoErr

(***************************************************************************)
(* C17.  IsRole(role) returns true exactly when role is non-empty and      *)
(* equals some element of the participant's Roles, at whatever position.   *)
(***************************************************************************)
IsRoleExactMatch ==
    Returned("IsRole") => resp.out = HoldsRole(resp.arg[1], resp.arg[2])

(***************************************************************************)
(* C18.  ReleaseAsset is symmetric to VoidAsset and ExpireAsset: on an     *)
(* existing contract whose stored State is "active", with a request that   *)
(* passes the gates (and no fault of the stub), it succeeds, stores State  *)
(* "released" and appends exactly one Change with Action "release" and     *)
(* NewState "released"; on a voided, expired or released contract it       *)
(* fails, whatever the request, and leaves the ledger as it was.           *)
(***************************************************************************)
ReleaseFromActiveOnly ==
    \A data \in VoidAssetEnvelopes, env \in StubEnvs :
        LET req == data.req
            key == Sprint(req.ContractId)
            r   == ReleaseAsset(ledger, data, env)
        IN  (data.enc = "ok" /\ key \in DOMAIN ledger)
            => /\ ( /\ Stored(ledger, key).State = "active"
                    /\ GatesPass(req)
                    /\ NoFault(env) )
                  => /\ r.err = NoErr
                     /\ r.out = <<[TxId |-> env.txid]>>
                     /\ DOMAIN r.ledger = DOMAIN ledger
                     /\ \A k \in DOMAIN ledger \ {key} : r.ledger[k] = ledger[k]
                     /\ Stored(r.ledger, key).State = "released"
                     /\ AppendsOne(Stored(ledger, key).Changes,
                                   Stored(r.ledger, key).Changes, req,
                                   "release", "released")
               /\ Stored(ledger, key).State \in Terminal
                  => (r.err # NoErr /\ r.out = Nil /\ r.ledger = ledger)

\* a ReleaseAsset has succeeded: a contract is released with the one Change of it
ReleaseFromActiveWitness ==
    /\ resp.op = "ReleaseAsset"
    /\ resp.err = NoErr
    /\ \E key \in DOMAIN ledger :
          /\ Stored(ledger, key).State = "released"
          /\ Len(Stored(ledger, key).Changes) = 1
          /\ Stored(ledger, key).Changes[1].Action = "release"
          /\ Stored(ledger, key).Changes[1].NewState = "released"

(***************************************************************************)
(* C19.  Each invocation is side-effect-free until a single final write:   *)
(* a CreateAsset, VoidAsset or ExpireAsset calls GetState at most once and *)
(* PutState at most once, and a PutState is its last call; a successful    *)
(* invocation is one GetState followed by one PutState of the same key,    *)
(* and the ledger it leaves is the ledger with that one Put; a failure of  *)
(* GetState or PutState is returned as the error of the invocation, with   *)
(* no further call and the ledger as it was.                               *)
(***************************************************************************)
CallsOf(r, fn) == { i \in DOMAIN r.calls : r.calls[i].fn = fn }

SingleFinalWrite(r, env) ==
    LET gets == CallsOf(r, "GetState")
        puts == CallsOf(r, "PutState")
    IN  /\ Cardinality(gets) <= 1
        /\ Cardinality(puts) <= 1
        /\ puts \subseteq {Len(r.calls)}
        /\ r.err = NoErr
             => /\ Len(r.calls) = 2
                /\ gets = {1}
                /\ puts = {2}
                /\ r.calls[1].key = r.calls[2].key
                /\ r.ledger = [ k \in DOMAIN ledger \cup {r.calls[2].key} |->
                                  IF k = r.calls[2].key THEN r.calls[2].value
                                  ELSE ledger[k] ]
        /\ r.err # NoErr
             => /\ r.ledger = ledger
                /\ puts # {} => (env.fault = "put" /\ r.err = "ledger put failed")
        /\ (env.fault = "get" /\ gets # {})
             => /\ r.err = "failed to read from world state: ledger get failed"
                /\ puts = {}
        /\ (env.fault = "put" /\ puts # {}) => r.err = "ledger put failed"

SingleWriteAfterChecks ==
    /\ \A data \in NewAssetEnvelopes, env \in StubEnvs :
          SingleFinalWrite(CreateAsset(ledger, data, env), env)
    /\ \A data \in VoidAssetEnvelopes, env \in Envs :
          SingleFinalWrite(VoidAsset(ledger, data, env), env)
    /\ \A data \in VoidAssetEnvelopes, env \in StubEnvs :
          SingleFinalWrite(ExpireAsset(ledger, data, env), env)

\* the PutState of a VoidAsset on an active contract has failed: the error is
\* returned and the contract is still active
SingleWriteWitness ==
    /\ resp.op = "VoidAsset"
    /\ resp.err = "ledger put failed"
    /\ resp.out = Nil
    /\ \E key \in DOMAIN ledger : Stored(ledger, key).State = "active"

(***************************************************************************)
(* C20.  Concurrent invocations on the same contract id, under a ledger    *)
(* that aborts at commit an invocation with a stale read:                  *)
(*  - every commit leaves the ledger that the committed invocation gives   *)
(*    when it is run, without error, on the ledger as committed so far, so *)
(*    the committed outcome is the serial execution in commit order;       *)
(*  - of two waiting invocations that write the same contract (two         *)
(*    CreateAssets, or a VoidAsset and an ExpireAsset of an active         *)
(*    contract) at most one commits: the commit of one makes the other     *)
(*    stale;                                                               *)
(*  - a contract that has left active has exactly one Change, and its      *)
(*    NewState is the State of the contract; an active one has none;       *)
(*  - no commit removes a contract or a Change, or alters a Change.        *)
(***************************************************************************)
Run(op, L, data, env) ==
    CASE op = "CreateAsset" -> CreateAsset(L, data, env)
      [] op = "VoidAsset"   -> VoidAsset(L, data, env)
      [] op = "ExpireAsset" -> ExpireAsset(L, data, env)

SerialStep ==
    version' # version
        => \E p \in inflight :
              LET r == Run(p.op, ledger, p.data, p.env)
              IN  /\ inflight' = inflight \ {p}
                  /\ r.err = NoErr
                  /\ ledger' = r.ledger
                  /\ resp'.out = r.out

AtMostOneCommits ==
    \A p \in inflight, q \in inflight :
        ( /\ p # q
          /\ WrittenBy(p) \cap WrittenBy(q) # {}
          /\ ReadsCurrent(p, version) )
            => ~ReadsCurrent(q, Bump(version, WrittenBy(p)))

OneChangeMatchingState ==
    \A key \in DOMAIN ledger :
        LET c == Stored(ledger, key)
        IN  IF c.State = ContractStateActive
            THEN c.Changes = <<>>
            ELSE /\ Len(c.Changes) = 1
                 /\ c.Changes[1].NewState = c.State

ConcurrentOutcomeIsSerial ==
    /\ [](AtMostOneCommits /\ OneChangeMatchingState)
    /\ [][SerialStep /\ AppendOnlyStep]_vars

\* a VoidAsset and an ExpireAsset were simulated on the same active contract;
\* the VoidAsset has committed, the ExpireAsset was aborted, and the contract
\* is voided with the one Change of the VoidAsset
ConcurrentOutcomeWitness ==
    /\ resp.op = "ExpireAsset"
    /\ resp.err = MvccReadConflict
    /\ \E key \in DOMAIN ledger :
          /\ Stored(ledger, key).State = ContractStateVoided
          /\ Len(Stored(ledger, key).Changes) = 1
          /\ Stored(ledger, key).Changes[1].Action = "void"
          /\ version[key] = 2

(***************************************************************************)
(* C21.  Wall-clock time is confined to non-authoritative fields: two      *)
(* executions of the same operation with the same envelope on the same     *)
(* ledger that differ only in the reading of the clock return the same     *)
(* error and the same response, write the same keys, and the Contracts     *)
(* they write agree on every field except CreatedAt, UpdatedAt and the     *)
(* PackageDate of the last (the appended) Change.                          *)
(***************************************************************************)
\* two changes that agree on everything but their date
SameButDate(ch, dh) ==
    [ch EXCEPT !.PackageDate = ""] = [dh EXCEPT !.PackageDate = ""]

\* two contracts that agree on every authoritative field
SameButClock(c, d) ==
    /\ c.ContractId = d.ContractId
    /\ c.Version = d.Version
    /\ c.ContractHash = d.ContractHash
    /\ c.State = d.State
    /\ Len(c.Changes) = Len(d.Changes)
    /\ \A i \in 1..Len(c.Changes) :
          IF i < Len(c.Changes) THEN c.Changes[i] = d.Changes[i]
          ELSE SameButDate(c.Changes[i], d.Changes[i])

\* two results on the current ledger that differ in clock fields at most
AgreeButClock(r, s) ==
    /\ r.err = s.err
    /\ r.out = s.out
    /\ DOMAIN r.ledger = DOMAIN s.ledger
    /\ WrittenKeys(r.calls) = WrittenKeys(s.calls)
    /\ \A key \in DOMAIN r.ledger :
          IF key \in WrittenKeys(r.calls)
          THEN SameButClock(Stored(r.ledger, key), Stored(s.ledger, key))
          ELSE r.ledger[key] = s.ledger[key]

AtClock(env, t) == [env EXCEPT !.now = t]

ClockConfinedToTimestamps ==
    /\ \A data \in NewAssetEnvelopes, env \in StubEnvs, t \in Times :
          AgreeButClock(CreateAsset(ledger, data, env),
                        CreateAsset(ledger, data, AtClock(env, t)))
    /\ \A data \in VoidAssetEnvelopes, env \in Envs, t \in Times :
          AgreeButClock(VoidAsset(ledger, data, env),
                        VoidAsset(ledger, data, AtClock(env, t)))
    /\ \A data \in VoidAssetEnvelopes, env \in StubEnvs, t \in Times :
          AgreeButClock(ExpireAsset(ledger, data, env),
                        ExpireAsset(ledger, data, AtClock(env, t)))

\* a contract created at one reading of the clock was expired at another, and
\* the two readings are in its CreatedAt, UpdatedAt and PackageDate
ClockConfinedWitness ==
    /\ resp.op = "ExpireAsset"
    /\ resp.err = NoErr
    /\ \E key \in DOMAIN ledger :
          LET c == Stored(ledger, key)
          IN  /\ c.State = ContractStateExpired
              /\ c.CreatedAt = RFC3339(1)
              /\ c.UpdatedAt = RFC3339(2)
              /\ c.Changes[1].PackageDate = RFC3339(2)

(***************************************************************************)
(* C22.  VoidAsset and ExpireAsset for a contract id that was never        *)
(* created, with a request that passes the hash, schema-version and        *)
(* validator gates, fail with the error "the asset <id> does not exist",   *)
(* return no response and leave the ledger as it was, with no entry for    *)
(* that id.                                                                *)
(***************************************************************************)
NotFound(r, key) ==
    /\ r.err = "the asset " \o key \o " does not exist"
    /\ r.out = Nil
    /\ r.ledger = ledger
    /\ key \notin DOMAIN r.ledger
    /\ WrittenKeys(r.calls) = {}

UnknownIdNotFound ==
    /\ \A data \in VoidAssetEnvelopes, env \in Envs :
          LET key == Sprint(data.req.ContractId)
          IN  ( /\ data.enc = "ok"
                /\ GatesPass(data.req)
                /\ NoFault(env)
                /\ key \notin DOMAIN ledger )
              => NotFound(VoidAsset(ledger, data, env), key)
    /\ \A data \in VoidAssetEnvelopes, env \in StubEnvs :
          LET key == Sprint(data.req.ContractId)
          IN  ( /\ data.enc = "ok"
                /\ GatesPass(data.req)
                /\ NoFault(env)
                /\ key \notin DOMAIN ledger )
              => NotFound(ExpireAsset(ledger, data, env), key)

\* an ExpireAsset for a contract id that was never created was refused on a
\* ledger that holds another contract, and the id still has no entry
UnknownIdWitness ==
    /\ resp.op = "ExpireAsset"
    /\ resp.out = Nil
    /\ DOMAIN ledger # {}
    /\ \E id \in ContractIds :
          /\ Sprint(id) \notin DOMAIN ledger
          /\ resp.err = "the asset " \o Sprint(id) \o " does not exist"

(***************************************************************************)
(* C23.  After any sequence of operations, for every contract id:          *)
(* AssetExists(id) is true exactly when a CreateAsset for id has           *)
(* succeeded; ReadAsset(id) returns the Contract of the last PutState of a *)
(* successful invocation for id, or the error "the asset <id> does not     *)
(* exist" when id was never created; and ReadAsset, AssetExists and        *)
(* GetAllAssets make no PutState and leave the ledger, and the versions of *)
(* its keys, as they were.                                                 *)
(***************************************************************************)
ReadOps == {"ReadAsset", "AssetExists", "GetAllAssets"}

ReadsReflectWrites ==
    \A id \in ContractIds, env \in StubEnvs :
        LET key == Sprint(id)
            ex  == AssetExists(ledger, key, env)
            rd  == ReadAsset(ledger, key, env)
        IN  /\ WrittenKeys(ex.calls) = {}
            /\ WrittenKeys(rd.calls) = {}
            /\ NoFault(env) =>
                  /\ ex.err = NoErr
                  /\ ex.exists = (id \in history.created)
                  /\ IF id \in history.created
                     THEN /\ rd.err = NoErr
                          /\ rd.asset = <<UnmarshalContract(history.written[key])>>
                     ELSE /\ rd.err = "the asset " \o key \o " does not exist"
                          /\ rd.asset = Nil

ReadStep ==
    resp'.op \in ReadOps => (ledger' = ledger /\ version' = version)

ReadsAreFaithful ==
    /\ []ReadsReflectWrites
    /\ [](\A env \in RangeEnvs : WrittenKeys(GetAllAssets(ledger, env).calls) = {})
    /\ [][ReadStep]_vars

\* a ReadAsset has returned a contract as its VoidAsset has written it, on a
\* ledger where the other contract id was never created
ReadsAreFaithfulWitness ==
    /\ resp.op = "ReadAsset"
    /\ resp.err = NoErr
    /\ resp.out # Nil
    /\ resp.out[1].State = ContractStateVoided
    /\ resp.out = <<UnmarshalContract(history.written[Sprint(resp.out[1].ContractId)])>>
    /\ history.created # ContractIds

(***************************************************************************)
(* C24.  ContractBlock.Validate returns no error exactly when the family   *)
(* id and the type id equal the Definition's, the type version is not      *)
(* zero, StorageYears is in [1,30] and, when ExpiryDate is set, ExpiryDate *)
(* is not before SealedOnDate, DaysToSign >= 1 and                         *)
(* (AllowSignatureExtension implies MaxDaysToSign >= 1); otherwise it      *)
(* returns the error of the first violated rule in that order; when        *)
(* ExpiryDate is unset, DaysToSign and MaxDaysToSign are not constrained.  *)
(***************************************************************************)
\* the rules in their order of precedence: whether the block violates the
\* rule, and the error of the rule
BlockRules(cb) ==
    LET opt == cb.ContractOptions
        set == opt.ExpiryDate # Nil
    IN  << [ violated |-> cb.ContractFamilyId # cb.Definition.ContractFamilyId,
             err |-> "invalid contract family id" ],
           [ violated |-> cb.ContractTypeId # cb.Definition.ContractType,
             err |-> "invalid contract type id" ],
           [ violated |-> cb.ContractTypeVersion = 0,
             err |-> "invalid contract type version" ],
           [ violated |-> cb.StorageYears \notin 1..30,
             err |-> "invalid storage years" ],
           [ violated |-> set /\ opt.ExpiryDate[1] < cb.SealedOnDate,
             err |-> "invalid expiry date" ],
           [ violated |-> set /\ ~(opt.DaysToSign >= 1),
             err |-> "invalid days to sign" ],
           [ violated |-> set /\ opt.AllowSignatureExtension /\ ~(opt.MaxDaysToSign >= 1),
             err |-> "invalid days to sign extension" ] >>

FirstRuleError(rules) ==
    IF \A i \in DOMAIN rules : ~rules[i].violated THEN NoErr
    ELSE rules[CHOOSE i \in DOMAIN rules :
                  rules[i].violated /\ \A j \in 1..(i - 1) : ~rules[j].violated].err

ValidateFollowsRules ==
    Returned("Validate") =>
        /\ resp.err = FirstRuleError(BlockRules(resp.arg))
        /\ resp.arg.ContractOptions.ExpiryDate = Nil =>
              \A ds \in {0, 1}, mds \in {0, 1} :
                  Validate([resp.arg EXCEPT !.ContractOptions.DaysToSign = ds,
                                            !.ContractOptions.MaxDaysToSign = mds])
                    = resp.err

\* Validate has accepted a block with no expiry date, no days to sign and the
\* extension of signatures allowed
ValidateFollowsRulesWitness ==
    /\ Returned("Validate")
    /\ resp.err = NoErr
    /\ resp.arg.ContractOptions.ExpiryDate = Nil
    /\ resp.arg.ContractOptions.DaysToSign = 0
    /\ resp.arg.ContractOptions.MaxDaysToSign = 0
    /\ resp.arg.ContractOptions.AllowSignatureExtension

(***************************************************************************)
(* C25.  Every failure of ValidateSignaturesComplete that concerns a       *)
(* signatory (every error other than those of the contract hash, of the    *)
(* absence of packages and of their number) names the user id and the full *)
(* name of a signatory in its message; and when the container is a         *)
(* complete one from which the package of one signatory was removed, the   *)
(* call fails with an error that names that signatory.                     *)
(***************************************************************************)
ContainerErrors ==
    { "contract signatures block does not have a contract hash set, or is not of correct length",
      "contract signatures block does not have any signature packages set",
      "contract signatures block does not have the same number of signature packages as there are signatories" }

PackageFaults ==
    { "full name not set", "signed on data not set",
      "package hash no set or incorrect length",
      "contract hash does not match contract hash in signature package",
      "contract id does not match contract id in signature package",
      "package hash not of correct length", "missing signature",
      "signature is not of correct length " }

\* the message carries the user id and a full name of the user
NamesUser(err, user) ==
    \E name \in {"", "Name of " \o user}, m \in PackageFaults :
        err = formatSignedPackageErr(user, name, m)

\* the message carries at least the user id
NamesUserId(err, user) ==
    \/ NamesUser(err, user)
    \/ err = "contract signatures block does not have a signature package for signatory user id '"
               \o user \o "'"

\* the container with the package sp put in before the package at position k
WithPackage(c, sp, k) ==
    LET sigs == c.ContractSignatures.Signatures
    IN  [c EXCEPT !.ContractSignatures.Signatures =
           SubSeq(sigs, 1, k - 1) \o <<sp>> \o SubSeq(sigs, k, Len(sigs))]

FailuresNameTheSignatory ==
    Returned("ValidateSignaturesComplete")
      => LET c == resp.arg
         IN  /\ (resp.err # NoErr /\ resp.err \notin ContainerErrors)
                  => \E i \in Signatories(c.Contract) :
                        NamesUser(resp.err, c.Contract.Participants[i].UserId)
             /\ \A i \in Signatories(c.Contract),
                   k \in 1..(Len(c.ContractSignatures.Signatures) + 1) :
                   LET user == c.Contract.Participants[i].UserId
                   IN  ( /\ ~HasPackage(c, c.Contract.Participants[i])
                         /\ ValidateSignaturesComplete(
                               WithPackage(c, SignedPackage(user, "none"), k)) = NoErr )
                       => NamesUserId(resp.err, user)

(***************************************************************************)
(* C26.  ContractSignaturePackage.Validate(signatureMethodId) exempts the  *)
(* embedded method from provider material: for every method it fails on   *)
(* ContractId < 1, on an empty ContractHash, UserId, UserFullName or       *)
(* SignatureType and on a zero DateSigned; a package without any of these  *)
(* defects passes under method 3 whatever its SignatureId, IpAddress,      *)
(* SignatureProvider and KeyInfo, and under methods 1 and 2 it passes      *)
(* exactly when SignatureId, IpAddress and SignatureProvider are not empty *)
(* and its KeyInfo has a certificate or a key id, type and source.         *)
(***************************************************************************)
CommonFieldsSet(sp) ==
    /\ sp.ContractId >= 1
    /\ sp.ContractHash # ""
    /\ sp.UserId # ""
    /\ sp.UserFullName # ""
    /\ sp.DateSigned # 0
    /\ sp.SignatureType # ""

ProviderMaterialSet(sp) ==
    /\ sp.SignatureId # ""
    /\ sp.IpAddress # ""
    /\ sp.SignatureProvider # ""
    /\ \/ sp.KeyInfo.X509Certificate # ""
       \/ sp.KeyInfo.KeyId # "" /\ sp.KeyInfo.KeyType # "" /\ sp.KeyInfo.KeySource # ""

EmbeddedExemptFromProviderMaterial ==
    Returned("ContractSignaturePackage.Validate")
      => LET sp == resp.arg[1]
             m  == resp.arg[2]
         IN  /\ ~CommonFieldsSet(sp) => resp.err # NoErr
             /\ (CommonFieldsSet(sp) /\ m = 3) => resp.err = NoErr
             /\ (CommonFieldsSet(sp) /\ m \in {1, 2})
                   => (resp.err = NoErr <=> ProviderMaterialSet(sp))

\* a package with no IpAddress, and the rest of it set, has passed under the
\* embedded method
EmbeddedExemptWitness ==
    /\ Returned("ContractSignaturePackage.Validate")
    /\ resp.arg[2] = 3
    /\ resp.arg[1].IpAddress = ""
    /\ resp.arg[1].SignatureId # ""
    /\ resp.arg[1].SignatureProvider # ""
    /\ CommonFieldsSet(resp.arg[1])
    /\ resp.err = NoErr

(***************************************************************************)
(* C27.  Validating ReleaseInstructionDetail{IsCustomRelease: false,       *)
(* StandardReleaseTemplateId: 0} fails with the error "invalid standard    *)
(* release template id".  As the claim has it, every other field is at its *)
(* zero value (ReleaseScenarioAllZero); as amended, the Instructions have  *)
(* at least 60 characters and every other field is at its zero value       *)
(* (ReleaseScenarioWithInstructions).                                      *)
(***************************************************************************)
\* a standard release with the template id 0 and the rest at zero values, but
\* for the instructions
ReleaseScenario(rid) ==
    /\ ~rid.IsCustomRelease
    /\ rid.StandardReleaseTemplateId = 0
    /\ rid.NotaryPackage = Nil
    /\ rid.AcceptancePackage = Nil
    /\ rid.NotarySignature = ""
    /\ rid.AcceptanceSignature = ""
    /\ ~rid.IsEvidenceRequiredForRelease
    /\ rid.ConsensusMethod = ""

ReleaseScenarioAllZero ==
    ( /\ Returned("ReleaseInstructionDetail.Validate")
      /\ ReleaseScenario(resp.arg[1])
      /\ resp.arg[1].Instructions = "" )
      => resp.err = "invalid standard release template id"

ReleaseScenarioWithInstructions ==
    ( /\ Returned("ReleaseInstructionDetail.Validate")
      /\ ReleaseScenario(resp.arg[1])
      /\ Len(resp.arg[1].Instructions) >= 60 )
      => resp.err = "invalid standard release template id"

\* the validation of a standard release with 60 characters of instructions and
\* the template id 0 has failed on the template id
ReleaseScenarioWitness ==
    /\ Returned("ReleaseInstructionDetail.Validate")
    /\ ReleaseScenario(resp.arg[1])
    /\ Len(resp.arg[1].Instructions) = 60
    /\ resp.err = "invalid standard release template id"

(***************************************************************************)
(* C29.  ReleaseInstructionDetail.Validate(evidenceRequired) returns no    *)
(* error exactly when len(Instructions) >= 60 and: if not custom,          *)
(* StandardReleaseTemplateId >= 1; if custom with a notary package,        *)
(* NotarySignature is not empty and (ApprovalState # "none" implies an     *)
(* AcceptancePackage that is not nil and an AcceptanceSignature that is    *)
(* not empty); if custom without a notary package, ConsensusMethod is not  *)
(* empty and (evidenceRequired implies IsEvidenceRequiredForRelease).  The *)
(* fields of the verifier path do not change the result on the notary      *)
(* path, nor those of the notary path the result on the verifier path.     *)
(***************************************************************************)
ReleaseInstructionsValid(rid, evidenceRequired) ==
    /\ Len(rid.Instructions) >= 60
    /\ IF ~rid.IsCustomRelease THEN rid.StandardReleaseTemplateId >= 1
       ELSE IF rid.NotaryPackage # Nil
       THEN /\ rid.NotarySignature # ""
            /\ rid.NotaryPackage[1].ApprovalState # "none"
                 => (rid.AcceptancePackage # Nil /\ rid.AcceptanceSignature # "")
       ELSE /\ rid.ConsensusMethod # ""
            /\ evidenceRequired => rid.IsEvidenceRequiredForRelease

\* rid and other differ at most in the fields of the verifier path
SameButVerifierFields(rid, other) ==
    [rid EXCEPT !.ConsensusMethod = "", !.IsEvidenceRequiredForRelease = FALSE]
      = [other EXCEPT !.ConsensusMethod = "", !.IsEvidenceRequiredForRelease = FALSE]

\* rid and other differ at most in the signature of the notary and in the
\* acceptance
SameButNotaryFields(rid, other) ==
    [rid EXCEPT !.NotarySignature = "", !.AcceptancePackage = Nil,
                !.AcceptanceSignature = ""]
      = [other EXCEPT !.NotarySignature = "", !.AcceptancePackage = Nil,
                      !.AcceptanceSignature = ""]

ReleaseInstructionRules ==
    Returned("ReleaseInstructionDetail.Validate")
      => LET rid == resp.arg[1]
             ev  == resp.arg[2]
         IN  /\ resp.err = NoErr <=> ReleaseInstructionsValid(rid, ev)
             /\ (rid.IsCustomRelease /\ rid.NotaryPackage # Nil)
                  => \A other \in ReleaseInstructionDetails, ev2 \in BOOLEAN :
                        SameButVerifierFields(rid, other)
                          => ReleaseInstructionDetailValidate(other, ev2) = resp.err
             /\ (rid.IsCustomRelease /\ rid.NotaryPackage = Nil)
                  => \A other \in ReleaseInstructionDetails :
                        SameButNotaryFields(rid, other)
                          => ReleaseInstructionDetailValidate(other, ev) = resp.err

\* custom release instructions on the notary path, with no consensus method
\* and evidence required but not flagged, have passed
ReleaseInstructionRulesWitness ==
    /\ Returned("ReleaseInstructionDetail.Validate")
    /\ resp.err = NoErr
    /\ resp.arg[1].IsCustomRelease
    /\ resp.arg[1].NotaryPackage # Nil
    /\ resp.arg[1].NotaryPackage[1].ApprovalState = "approved"
    /\ resp.arg[1].ConsensusMethod = ""
    /\ resp.arg[2]
    /\ ~resp.arg[1].IsEvidenceRequiredForRelease

(***************************************************************************)
(* C28.  ValidateSignaturesComplete accepts every complete consent record, *)
(* whatever the order of its participants and of its packages: when the    *)
(* contract hash of the signature block has 44 characters, the signatories *)
(* are distinct users and at least one, each has exactly one package with  *)
(* its UserId, there is no other package, and every package has a full     *)
(* name, a date, the contract hash of the signature block, the contract's  *)
(* ContractId and (when not embedded) a 44-character package hash and a    *)
(* 344-character signature, the function returns no error.                 *)
(***************************************************************************)
PackageComplete(c, sp) ==
    LET pkg == sp.ContractSignaturePackage
    IN  /\ pkg.UserFullName # ""
        /\ pkg.DateSigned # 0
        /\ Len(pkg.ContractHash) = 44
        /\ pkg.ContractHash = c.ContractSignatures.ContractHash
        /\ pkg.ContractId = c.Contract.ContractID
        /\ c.Contract.SignatureMethod.PackageMethodId # 3
             => /\ Len(sp.ContractSignaturePackageHash) = 44
                /\ Len(sp.Signature) = 344

PackagesOf(c, user) ==
    { j \in 1..Len(c.ContractSignatures.Signatures) :
        c.ContractSignatures.Signatures[j].ContractSignaturePackage.UserId = user }

ConsentComplete(c) ==
    LET ps   == c.Contract.Participants
        sigs == c.ContractSignatures.Signatures
        S    == Signatories(c.Contract)
    IN  /\ Len(c.ContractSignatures.ContractHash) = 44
        /\ S # {}
        /\ \A i \in S, k \in S : ps[i].UserId = ps[k].UserId => i = k
        /\ \A i \in S : Cardinality(PackagesOf(c, ps[i].UserId)) = 1
        /\ \A j \in 1..Len(sigs) :
              /\ \E i \in S : ps[i].UserId = sigs[j].ContractSignaturePackage.UserId
              /\ PackageComplete(c, sigs[j])

CompleteConsentAccepted ==
    (Returned("ValidateSignaturesComplete") /\ ConsentComplete(resp.arg))
      => resp.err = NoErr

(***************************************************************************)
(* C30.  In every reachable ledger state the State and the Changes of each *)
(* stored Contract agree: the State is "active" exactly when Changes is    *)
(* empty; otherwise Changes holds exactly one record, whose NewState is    *)
(* the State and whose Action is "void" for a voided contract and          *)
(* "expire" for an expired one.                                            *)
(***************************************************************************)
StateAgreesWithChanges ==
    \A key \in DOMAIN ledger :
        LET c == Stored(ledger, key)
        IN  /\ (c.State = ContractStateActive) <=> (c.Changes = <<>>)
            /\ c.State # ContractStateActive =>
                 /\ Len(c.Changes) = 1
                 /\ c.Changes[1].NewState = c.State
                 /\ c.State = ContractStateVoided => c.Changes[1].Action = "void"
                 /\ c.State = ContractStateExpired => c.Changes[1].Action = "expire"

\* the ledger holds a voided contract and an expired contract, each with the
\* one Change of its transition
StateAgreesWithChangesWitness ==
    \E k1 \in DOMAIN ledger, k2 \in DOMAIN ledger :
        /\ Stored(ledger, k1).State = ContractStateVoided
        /\ Stored(ledger, k1).Changes # <<>>
        /\ Stored(ledger, k2).State = ContractStateExpired
        /\ Stored(ledger, k2).Changes # <<>>

(***************************************************************************)
(* C31.  A successful VoidAsset or ExpireAsset changes only the State, the *)
(* UpdatedAt and the tail of the Changes of the contract stored under the  *)
(* request's ContractId: its ContractId, Version, ContractHash and         *)
(* CreatedAt are those stored before (so those written by CreateAsset),    *)
(* its previous Changes are kept in front of the one appended, no entry is *)
(* added or removed, and every other entry of the ledger is unchanged.     *)
(***************************************************************************)
\* the result r of a transition requested by req, against the current ledger
TransitionFrame(r, req) ==
    r.err = NoErr =>
       LET key == Sprint(req.ContractId)
       IN  /\ key \in DOMAIN ledger
           /\ DOMAIN r.ledger = DOMAIN ledger
           /\ \A other \in DOMAIN ledger \ {key} : r.ledger[other] = ledger[other]
           /\ LET old == Stored(ledger, key)
                  new == Stored(r.ledger, key)
              IN  /\ new.ContractId = old.ContractId
                  /\ new.Version = old.Version
                  /\ new.ContractHash = old.ContractHash
                  /\ new.CreatedAt = old.CreatedAt
                  /\ Len(new.Changes) = Len(old.Changes) + 1
                  /\ IsPrefix(old.Changes, new.Changes)

TransitionChangesOnlyItsFields ==
    /\ \A data \in VoidAssetEnvelopes, env \in Envs :
          TransitionFrame(VoidAsset(ledger, data, env), data.req)
    /\ \A data \in VoidAssetEnvelopes, env \in StubEnvs :
          TransitionFrame(ExpireAsset(ledger, data, env), data.req)

\* a VoidAsset at the second reading of the clock has voided one of two
\* contracts: it keeps the creation date of the first reading, and the other
\* contract is still active
TransitionFrameWitness ==
    /\ resp.op = "VoidAsset"
    /\ resp.err = NoErr
    /\ \E k1 \in DOMAIN ledger, k2 \in DOMAIN ledger :
          /\ k1 # k2
          /\ Stored(ledger, k1).State = ContractStateVoided
          /\ Stored(ledger, k1).CreatedAt = RFC3339(1)
          /\ Stored(ledger, k1).UpdatedAt = RFC3339(2)
          /\ Stored(ledger, k2).State = ContractStateActive

(***************************************************************************)
(* C32.  In every reachable ledger state the entry stored under the key k  *)
(* holds a Contract whose ContractId, formatted as a decimal string, is k. *)
(* Every PutState of CreateAsset has the key of the ContractID of the      *)
(* document block, every PutState of VoidAsset the key of the ContractId   *)
(* of the asset read, every PutState of ExpireAsset the key of the         *)
(* ContractId of the request; the Contract written has the ContractId of   *)
(* its key, and the key is the one the operation has read before.          *)
(***************************************************************************)
KeyedByContractId(L) ==
    \A k \in DOMAIN L : Sprint(Stored(L, k).ContractId) = k

\* every PutState among the calls of r has the key, writes a Contract of that
\* ContractId and comes after a GetState of the key
WritesUnder(r, key) ==
    \A i \in CallsOf(r, "PutState") :
        /\ r.calls[i].key = key
        /\ Sprint(UnmarshalContract(r.calls[i].value).ContractId) = key
        /\ \E j \in CallsOf(r, "GetState") : j < i /\ r.calls[j].key = key

LedgerKeyedByContractId ==
    /\ KeyedByContractId(ledger)
    /\ \A data \in NewAssetEnvelopes, env \in StubEnvs :
          WritesUnder(CreateAsset(ledger, data, env),
                      Sprint(data.req.ImmutableContract.Contract.ContractID))
    /\ \A data \in VoidAssetEnvelopes, env \in Envs :
          LET key == Sprint(data.req.ContractId)
              r   == VoidAsset(ledger, data, env)
          IN  /\ WritesUnder(r, key)
              /\ CallsOf(r, "PutState") # {}
                   => Sprint(Stored(ledger, key).ContractId) = key
    /\ \A data \in VoidAssetEnvelopes, env \in StubEnvs :
          WritesUnder(ExpireAsset(ledger, data, env), Sprint(data.req.ContractId))

\* the ledger holds the contracts of a one-digit and of a two-digit id, each
\* under its key, and the last of them written by an ExpireAsset
LedgerKeyedWitness ==
    /\ resp.op = "ExpireAsset"
    /\ resp.err = NoErr
    /\ DOMAIN ledger = { Sprint(id) : id \in ContractIds }
    /\ \E k \in DOMAIN ledger :
          /\ Len(k) = 2
          /\ Stored(ledger, k).State = ContractStateExpired
          /\ Sprint(Stored(ledger, k).ContractId) = k

(***************************************************************************)
(* C33.  A transition is applied only to the contract the submitted        *)
(* document describes: a VoidAsset or an ExpireAsset whose request names a *)
(* ContractId other than the ContractID of the block of its document       *)
(* leaves the ledger as it was, so the contract stored under the request's *)
(* ContractId is not transitioned.                                         *)
(***************************************************************************)
\* the request names the contract of its document
DescribesTarget(req) == req.ContractId = req.ImmutableContract.Contract.ContractID

TransitionOnlyOfDescribedContract ==
    /\ \A data \in VoidAssetEnvelopes, env \in Envs :
          (data.enc = "ok" /\ ~DescribesTarget(data.req))
             => VoidAsset(ledger, data, env).ledger = ledger
    /\ \A data \in VoidAssetEnvelopes, env \in StubEnvs :
          (data.enc = "ok" /\ ~DescribesTarget(data.req))
             => ExpireAsset(ledger, data, env).ledger = ledger

====
